---- MODULE Spec2Model ----
(***************************************************************************)
(* Prompter (VSCode notebook extension): the LLM request/response layer,   *)
(* and after it the parts of the extension around that layer, each with a  *)
(* specification of its own: the notebook and its cells (run all, cell     *)
(* history, the controller), the string formatter, the .ppnb serializer,   *)
(* the auto-save timers, the kernel manager and the bookmark manager.      *)
(*                                                                         *)
(* Three transport paths send a prompt to a provider:                      *)
(*   "G"  executeCellPrompt -> createModel -> createGeneralLanguageModel   *)
(*        .complete (fetch, retry loop on transient HTTP statuses)         *)
(*   "U"  UniversalLLMProvider.fromConfig(...).complete (axios.post)       *)
(*   "T"  createJsonTranslator(...).translate over                         *)
(*        ThirdPartyLanguageModel.complete (fetch)                         *)
(* A call is one invocation of an entry point.  JavaScript runs each       *)
(* callback to its next await, so one action is one such run: the entry    *)
(* up to the first HTTP call, the continuation after an HTTP response or   *)
(* rejection, the continuation after a sleep.                              *)
(***************************************************************************)
EXTENDS Integers, Sequences, FiniteSets, TLC

VARIABLES
    model,      \* the TypeChatLanguageModel object: retryMaxAttempts, retryPauseMs
    path,       \* per call: which entry point it is a call of
    cfg,        \* per call: the configuration the entry point reads
    pc,         \* per call: "unused" | "idle" | "fetch" | "sleep" | "done"
    req,        \* per call: what complete() resolved (provider, url, model name)
    retryCount, \* per call: local of createGeneralLanguageModel.complete
    retryMax,   \* per call: const retryMaxAttempts of that call
    pauseMs,    \* per call: const retryPauseMs of that call
    sends,      \* per call: HTTP requests put on the wire
    sleeps,     \* per call: the ms argument of every sleep() it awaited
    nResp,      \* per call: HTTP responses received (history)
    nTransient, \* per call: responses whose status is in the retryable set (history)
    lastResp,   \* per call: the last HTTP outcome (response, or rejection)
    result,     \* per call: the outcome of complete()
    tr,         \* per call: the outcome of translate()
    modelFactories, \* the orgs registerModelFactory has registered a factory for
    reqBody,    \* per call: the JSON body of the request it sends
    reqHeaders, \* per call: the HTTP headers of the request it sends
    wrap,       \* per call: the outcome of executeCellPrompt
    notebook,   \* the notebook's cells: the handle of each cell object, by index
    objs,       \* every NotebookCell object made so far, by handle
    task,       \* per task: a run-all command or a controller executeHandler call
    events,     \* the executeCell calls and execution.start/end calls made (history)
    panel,      \* the history panel: the cell object it was opened on, its reset in flight
    writes,     \* per cell index: the replaceCells edits applied there (history)
    lastOp,     \* the last history-writing attempt and what it found (history)
    fmtIn,      \* the template and values a formatter is called with
    fmtOut,     \* what formatString and formatStringAdvanced returned
    serIn,      \* the NotebookData handed to serializeNotebook
    serFile,    \* the .ppnb JSON it wrote, as parsed back
    serOut,     \* the NotebookData deserializeNotebook made of it
    now,        \* the time, in ms
    timers,     \* the setTimeout timers not yet fired or cleared
    pendingSaves, \* the Map pendingSaves: <<key, timer handle>>
    changeLog,  \* every onDidChangeNotebookDocument event (history)
    saveLog,    \* every run of the auto-save callback (history)
    currentKernel, \* KernelManager.currentKernel: {} is null
    availableKernels, \* KernelManager.availableKernels
    quickPick,  \* the items of the quick pick selectKernel awaits
    bookmarks,  \* BookmarkManager.bookmarks
    bmFile,     \* the bookmarks in bookmarks.json
    bmClock,    \* Date.now() as the bookmark manager reads it
    bmOp        \* the last call of the bookmark manager and what it found

vars == <<model, path, cfg, pc, req, retryCount, retryMax, pauseMs, sends,
          sleeps, nResp, nTransient, lastResp, result, tr, modelFactories,
          reqBody, reqHeaders, wrap,
          notebook, objs, task, events, panel, writes, lastOp,
          fmtIn, fmtOut,
          serIn, serFile, serOut,
          now, timers, pendingSaves, changeLog, saveLog,
          currentKernel, availableKernels, quickPick,
          bookmarks, bmFile, bmClock, bmOp>>

\* the state of the LLM layer
llmVars == <<model, path, cfg, pc, req, retryCount, retryMax, pauseMs, sends,
             sleeps, nResp, nTransient, lastResp, result, tr, modelFactories,
             reqBody, reqHeaders, wrap>>

\* the state of the notebook: cells, runs, history panel
nbVars == <<notebook, objs, task, events, panel, writes, lastOp>>

\* the string formatter's call
fmtVars == <<fmtIn, fmtOut>>

\* the notebook serializer's call
serVars == <<serIn, serFile, serOut>>

\* the auto-save timers
saveVars == <<now, timers, pendingSaves, changeLog, saveLog>>

\* the kernel manager
kernelVars == <<currentKernel, availableKernels, quickPick>>

\* the bookmark manager
bmVars == <<bookmarks, bmFile, bmClock, bmOp>>

\* everything outside the LLM layer
appVars == <<nbVars, fmtVars, serVars, saveVars, kernelVars, bmVars>>

\* everything outside one part of the extension
exceptNb == <<llmVars, fmtVars, serVars, saveVars, kernelVars, bmVars>>

exceptFmt == <<llmVars, nbVars, serVars, saveVars, kernelVars, bmVars>>

exceptSer == <<llmVars, nbVars, fmtVars, saveVars, kernelVars, bmVars>>

exceptSave == <<llmVars, nbVars, fmtVars, serVars, kernelVars, bmVars>>

exceptKernel == <<llmVars, nbVars, fmtVars, serVars, saveVars, bmVars>>

exceptBm == <<llmVars, nbVars, fmtVars, serVars, saveVars, kernelVars>>

-----------------------------------------------------------------------------
(* Values *)

\* JavaScript undefined, for optional strings
Undefined == "<undefined>"

\* An optional number is the empty set or a singleton
Absent == {}

\* a ?? d
Nullish(opt, d) == IF opt = Absent THEN d ELSE CHOOSE x \in opt : TRUE

CallIds == {"a", "b"}

Paths == {"G", "U", "T"}

-----------------------------------------------------------------------------
(* The notebook before any is open *)

MaxTasks == 2

TaskIds == 1..MaxTasks

NoEdit == [index |-> 0, kind |-> "", lang |-> "", text |-> "", count |-> 0,
           history |-> <<>>]

\* a task that was not started
NoTask == [type |-> "none", pc |-> "idle", cells |-> <<>>, k |-> 0,
           code |-> "", failed |-> FALSE, edit |-> NoEdit]

\* the history panel before it is opened
NoPanel == [cell |-> 0, pc |-> "closed", shown |-> <<>>, prompt |-> "",
            edit |-> NoEdit]

NoOp == [kind |-> "none", present |-> FALSE, before |-> 0, after |-> 0]

NbIdle ==
    /\ notebook = <<>>
    /\ objs = <<>>
    /\ task = [t \in TaskIds |-> NoTask]
    /\ events = <<>>
    /\ panel = NoPanel
    /\ writes = <<>>
    /\ lastOp = NoOp

NoFmtIn == [template |-> <<>>, values |-> <<>>]

NoFmtOut == [basic |-> "<undefined>", advanced |-> "<undefined>"]

FmtIdle ==
    /\ fmtIn = NoFmtIn
    /\ fmtOut = NoFmtOut

\* no file written, none read
NoFile == [done |-> FALSE, cells |-> <<>>]

SerIdle ==
    /\ serIn = <<>>
    /\ serFile = NoFile
    /\ serOut = NoFile

SaveIdle ==
    /\ now = 0
    /\ timers = {}
    /\ pendingSaves = {}
    /\ changeLog = <<>>
    /\ saveLog = <<>>

\* no quick pick is open
NoPick == [open |-> FALSE, items |-> <<>>]

KernelIdle ==
    /\ currentKernel = {}
    /\ availableKernels = <<>>
    /\ quickPick = NoPick

\* no call of the bookmark manager yet
NoBmOp == [op |-> "none", cellId |-> "", notebookUri |-> "", id |-> -1, existingIndex |-> -1]

BmIdle ==
    /\ bookmarks = <<>>
    /\ bmFile = <<>>
    /\ bmClock = 0
    /\ bmOp = NoBmOp

AppIdle ==
    /\ NbIdle
    /\ FmtIdle
    /\ SerIdle
    /\ SaveIdle
    /\ KernelIdle
    /\ BmIdle

-----------------------------------------------------------------------------
(* Bounds of the model *)

\* model.retryMaxAttempts, when set, ranges over 0..MaxRetrySetting
MaxRetrySetting == 2

\* the sleep values model.retryPauseMs ranges over when set: 1..MaxPauseSetting
MaxPauseSetting == 2

\* prompter.temperature, when set, ranges over 0..MaxTemperatureSetting tenths
MaxTemperatureSetting == 2

\* prompter.maxTokens, when set, ranges over 0..MaxTokensSetting
MaxTokensSetting == 2

\* topP, when set, ranges over 0..MaxTopPSetting tenths
MaxTopPSetting == 1

\* a conversation has at most MaxMsgs messages
MaxMsgs == 2

-----------------------------------------------------------------------------
(* HTTP *)

\* the statuses a provider stub answers with
Statuses == {200, 201, 400, 401, 404, 429, 500, 502, 503, 504}

\* Response.ok of fetch: the status is in the range 200-299
ResponseOk(status) == status >= 200 /\ status <= 299

\* Response.statusText: the reason phrase that goes with the status
StatusText(status) ==
    CASE status = 200 -> "OK"
      [] status = 201 -> "Created"
      [] status = 400 -> "Bad Request"
      [] status = 401 -> "Unauthorized"
      [] status = 404 -> "Not Found"
      [] status = 429 -> "Too Many Requests"
      [] status = 500 -> "Internal Server Error"
      [] status = 502 -> "Bad Gateway"
      [] status = 503 -> "Service Unavailable"
      [] status = 504 -> "Gateway Timeout"
      [] OTHER -> ""

isTransientHttpError(code) == code \in {429, 500, 502, 503, 504}

\* the text a model can put in the completion
Texts == {
    "",
    "not json",
    "null",
    "{\"format\":\"plaintext\",\"response\":\"hi\"}",
    "{\"format\":\"markdown\",\"tags\":[\"a\"],\"response\":\"# hi\"}",
    "{\"format\":\"plaintext\"}",
    "{\"format\":\"html\",\"response\":\"hi\"}",
    "{\"format\":\"plaintext\",\"response\":42}",
    "{\"format\":\"plaintext\",\"response\":\"hi\",\"extra\":\"x\"}",
    "{\"format\":\"plaintext\",\"content\":\"hi\",\"success\":true}"
}

\* The shapes of response body the four provider families document, by how
\* much of the path to the text field is present:
\*   openai     choices[0].message.content
\*   anthropic  content[0].text
\*   qwen       output.text
\*   gemini     candidates[0].content.parts[0].text
\* level "root"    the first property of the path is missing
\*       "parent"  the path is present up to the object holding the text field,
\*                 which is itself missing (choices: [], or choices: [{}])
\*       "leafless" the holder is present, the text field is not
\*       "nonstring" the text field holds a number
\*       "leaf"    the text field holds the string `content`
\*       "notjson" the body is not JSON at all
Families == {"openai", "anthropic", "qwen", "gemini"}

Levels == {"root", "parent", "leafless", "nonstring", "leaf", "notjson"}

OkBodies ==
    [family : Families, level : {"leaf"}, content : Texts]
    \cup [family : Families, level : Levels \ {"leaf"}, content : {Undefined}]

ErrBodies == [family : {"error"}, level : {"leaf"},
              content : {"quota exceeded", "invalid request"}]

NoBody == [family |-> "none", level |-> "root", content |-> Undefined]

\* an HTTP exchange as the client sees it
\* (status is an optional number: {s}, or Absent when there is no response)
\* data.usage of a response body: whether the body has a usage object, and
\* the token counts that object holds, as <<field, count>>
NoUsage == [has |-> FALSE, fields |-> {}]

Responses ==
    [rejected : {FALSE}, status : {{s} : s \in {x \in Statuses : ResponseOk(x)}},
     body : OkBodies, usage : {NoUsage}]
    \cup [rejected : {FALSE}, status : {{s} : s \in {x \in Statuses : ~ResponseOk(x)}},
           body : ErrBodies, usage : {NoUsage}]

StatusOf(r) == CHOOSE s \in r.status : TRUE

HasStatus(r) == r.status # Absent

\* the HTTP call itself failed (DNS, refused, timeout): no response
Rejection == [rejected |-> TRUE, status |-> Absent, body |-> NoBody,
              usage |-> NoUsage]

NoResp == [rejected |-> FALSE, status |-> Absent, body |-> NoBody,
           usage |-> NoUsage]

-----------------------------------------------------------------------------
(* Reading the text field out of a response body *)

\* data.<path to the text field> as JavaScript evaluates it against `body`, for
\* the path of `family`: the read throws a TypeError when a property is read
\* off undefined, and otherwise yields the value found (undefined when only
\* the last property is missing).  A body of another family, or one that is
\* not a JSON object, has none of the path.
ReadPath(body, family) ==
    IF body.family # family \/ body.level \in {"root", "parent", "notjson"}
    THEN [threw |-> TRUE, value |-> Undefined, isString |-> FALSE]
    ELSE IF body.level = "leafless"
    THEN [threw |-> FALSE, value |-> Undefined, isString |-> FALSE]
    ELSE IF body.level = "nonstring"
    THEN [threw |-> FALSE, value |-> "42", isString |-> FALSE]
    ELSE [threw |-> FALSE, value |-> body.content, isString |-> TRUE]

\* data.choices[0]?.message?.content: optional chaining stops at a missing
\* element or message instead of throwing; a missing `choices` still throws
ReadPathOptional(body) ==
    IF body.family # "openai" \/ body.level \in {"root", "notjson"}
    THEN [threw |-> TRUE, value |-> Undefined, isString |-> FALSE]
    ELSE IF body.level \in {"parent", "leafless"}
    THEN [threw |-> FALSE, value |-> Undefined, isString |-> FALSE]
    ELSE IF body.level = "nonstring"
    THEN [threw |-> FALSE, value |-> "42", isString |-> FALSE]
    ELSE [threw |-> FALSE, value |-> body.content, isString |-> TRUE]

-----------------------------------------------------------------------------
(* Outcomes *)

\* the outcome of complete():
\*   kind     "pending" | "success" (a completion) | "error" (a returned
\*            {success:false, message}) | "thrown" (a rejected promise)
\*   errType  what was thrown or returned as error
\*   status, statusText, body   what of the HTTP response the failure carries
\*   content  the completion text of a success
\*   hasUsage, usage   LLMResponse.usage: whether the result has the object,
\*            and its fields that hold a number, as <<field, count>>
Pending ==
    [kind |-> "pending", errType |-> "", status |-> Absent,
     statusText |-> Undefined, body |-> {}, content |-> Undefined,
     hasUsage |-> FALSE, usage |-> {}]

Success(text) == [Pending EXCEPT !.kind = "success", !.content = text]

Thrown(type) == [Pending EXCEPT !.kind = "thrown", !.errType = type]

\* the outcome of translate(): "none" | "returned" | "thrown"
NoTranslation ==
    [kind |-> "none", success |-> FALSE,
     data |-> [kind |-> "undefined", fields |-> {}], message |-> ""]

\* the outcome of executeCellPrompt: "none" | "returned" (a WrapChatResponse)
\* | "thrown".  meta is empty, or holds the metadata that reaches the caller
NoWrap == [kind |-> "none", meta |-> {}, data |-> [kind |-> "undefined", fields |-> {}],
           message |-> ""]

-----------------------------------------------------------------------------
(* JSON *)

\* A JSON value: its kind and, for an object, its fields as
\* <<name, type, printed value>>
NoData == [kind |-> "undefined", fields |-> {}]

JsonObject(fields) == [kind |-> "object", fields |-> fields]

\* JSON.parse on the texts of the model: ok is FALSE where it throws SyntaxError
JSONparse(text) ==
    CASE text = "null" -> [ok |-> TRUE, data |-> [kind |-> "null", fields |-> {}]]
      [] text = "42" -> [ok |-> TRUE, data |-> [kind |-> "number", fields |-> {}]]
      [] text = "{\"format\":\"plaintext\",\"response\":\"hi\"}" ->
            [ok |-> TRUE, data |-> JsonObject({<<"format", "string", "plaintext">>,
                                                <<"response", "string", "hi">>})]
      [] text = "{\"format\":\"markdown\",\"tags\":[\"a\"],\"response\":\"# hi\"}" ->
            [ok |-> TRUE, data |-> JsonObject({<<"format", "string", "markdown">>,
                                                <<"tags", "array", "a">>,
                                                <<"response", "string", "# hi">>})]
      [] text = "{\"format\":\"plaintext\"}" ->
            [ok |-> TRUE, data |-> JsonObject({<<"format", "string", "plaintext">>})]
      [] text = "{\"format\":\"html\",\"response\":\"hi\"}" ->
            [ok |-> TRUE, data |-> JsonObject({<<"format", "string", "html">>,
                                                <<"response", "string", "hi">>})]
      [] text = "{\"format\":\"plaintext\",\"response\":42}" ->
            [ok |-> TRUE, data |-> JsonObject({<<"format", "string", "plaintext">>,
                                                <<"response", "number", "42">>})]
      [] text = "{\"format\":\"plaintext\",\"response\":\"hi\",\"extra\":\"x\"}" ->
            [ok |-> TRUE, data |-> JsonObject({<<"format", "string", "plaintext">>,
                                                <<"response", "string", "hi">>,
                                                <<"extra", "string", "x">>})]
      [] text = "{\"format\":\"plaintext\",\"content\":\"hi\",\"success\":true}" ->
            [ok |-> TRUE, data |-> JsonObject({<<"format", "string", "plaintext">>,
                                                <<"content", "string", "hi">>,
                                                <<"success", "boolean", "true">>})]
      [] OTHER -> [ok |-> FALSE, data |-> NoData]

\* A value in a request body: a number (n), a string or boolean (s), a list
\* of messages (m), or undefined
Num(x) == [t |-> "num", n |-> {x}, s |-> "", m |-> <<>>]

Str(x) == [t |-> "str", n |-> {}, s |-> x, m |-> <<>>]

Bool(x) == [t |-> "bool", n |-> {}, s |-> IF x THEN "true" ELSE "false", m |-> <<>>]

List(x) == [t |-> "list", n |-> {}, s |-> "", m |-> x]

Undef == [t |-> "undef", n |-> {}, s |-> "", m |-> <<>>]

\* an optional number as a body value
NumOpt(opt) == IF opt = Absent THEN Undef ELSE Num(CHOOSE x \in opt : TRUE)

\* an optional string as a body value
StrOpt(x) == IF x = "<undefined>" THEN Undef ELSE Str(x)

\* A request body is a set of <<key path, value>>.  JSON.stringify leaves out
\* the keys whose value is undefined
JSONstringify(pairs) == {p \in pairs : p[2].t # "undef"}

Keys(pairs) == {p[1] : p \in pairs}

\* the value under a key path of a body (Undef when the key is not there)
Get(pairs, key) ==
    IF key \in Keys(pairs) THEN (CHOOSE p \in pairs : p[1] = key)[2] ELSE Undef

-----------------------------------------------------------------------------
(* Configuration *)

\* an endpoint the user configures in place of the provider's own
ProxyUrl == "https://proxy.example/v1"

\* what the settings hold under prompter.llmProvider ("" when unset)
GProviderInputs == {"", "openai", "deepseek", "mistral", "acme"}

\* the providerName a caller hands to UniversalLLMProvider.fromConfig
UProviderInputs ==
    {"openai", "OpenAI", "deepseek", "qwen", "anthropic", "gemini", "mistral", "acme"}

\* LLMConfig.provider of llmSchema.ts
TProviderInputs == {"openai", "deepseek", "qwen", "anthropic", "azure", "custom"}

\* what the settings hold under prompter.llmModel ("" when unset)
ModelInputs == {"", "m-1"}

\* a message of the conversation (interface Message)
Msg(role, content) == [role |-> role, content |-> content]

\* the API key of the settings
ApiKey == "sk-1"

\* the one-message conversation a prompt string stands for
PromptMessages == <<Msg("user", "hello")>>

\* the settings with no generation parameter set.  Numbers with a fraction
\* are held in tenths: temperature 0.7 is 7, topP 1.0 is 10
Configs(providers) ==
    [provider : providers, endpoint : {Undefined, ProxyUrl}, llmModel : ModelInputs,
     temperature : {Absent}, maxTokens : {Absent}, topP : {Absent},
     apiKey : {ApiKey}, messages : {PromptMessages}]

\* nothing set at all
UnsetConfig ==
    [provider |-> "", endpoint |-> Undefined, llmModel |-> "",
     temperature |-> Absent, maxTokens |-> Absent, topP |-> Absent,
     apiKey |-> ApiKey, messages |-> PromptMessages]

\* the model object as created (no retry fields), or with them set by a caller
ModelObjects ==
    [retryMaxAttempts : {Absent} \cup {{n} : n \in 0..MaxRetrySetting},
     retryPauseMs : {Absent} \cup {{n} : n \in 1..MaxPauseSetting}]

\* the TypeChat defaults of complete()
DefaultRetryMaxAttempts == 3

DefaultRetryPauseMs == 1000

\* OrgConfig[org].endpoint, undefined for an org the table does not hold
OrgConfig(org) ==
    CASE org = "deepseek" -> "https://api.deepseek.com/v1/chat/completions"
      [] org = "qwen" ->
            "https://dashscope.aliyuncs.com/compatible-mode/v1//chat/completions"
      [] org = "openai" -> "https://api.openai.com/v1/chat/completions"
      [] org = "anthropic" -> "https://api.anthropic.com/v1/chat/completions"
      [] org = "gemini" -> "https://gemini.chat/api/v1/chat/completions"
      [] OTHER -> Undefined

OrgConfigKeys == {"deepseek", "qwen", "openai", "anthropic", "gemini"}

\* a || b on strings: the empty string and undefined are falsy
OrElse(a, b) == IF a \in {"", Undefined} THEN b ELSE a

\* query: what is appended to the URL as ?name=value, as <<name, value>>
NoReq == [org |-> Undefined, url |-> Undefined, modelName |-> Undefined,
          query |-> {}]

\* what executeCellPrompt resolves from the settings before it creates the model
ResolveCellPrompt(c) ==
    LET org == OrElse(c.provider, "openai")
    IN  [org |-> org,
         url |-> OrElse(c.endpoint, OrgConfig(org)),
         modelName |-> OrElse(c.llmModel, "gpt-3.5-turbo"),
         query |-> {}]

\* a || d on numbers: undefined and 0 are falsy
NumOrElse(opt, d) ==
    IF opt = Absent \/ opt = {0} THEN d ELSE CHOOSE x \in opt : TRUE

\* the defaults of executeCellPrompt (temperature in tenths)
CellDefaultTemperature == 7

CellDefaultMaxTokens == 1000

\* const defaultParams of executeCellPrompt, as the properties it holds
defaultParams(c) ==
    {<<"temperature", Num(NumOrElse(c.temperature, CellDefaultTemperature))>>,
     <<"maxTokens", Num(NumOrElse(c.maxTokens, CellDefaultMaxTokens))>>}

\* fetch(url, options) puts a request on the wire only for a URL it can parse;
\* fetch(undefined) rejects with a TypeError and sends nothing
CanFetch(url) == url # Undefined

-----------------------------------------------------------------------------
(* Path G: executeCellPrompt -> createGeneralLanguageModel.complete *)

\* the ms the k-th retry sleeps
SleepMs_Backoff(pause, count) == pause * (count + 1)

SleepMs(pause, count) == pause

\* the outcome of complete() on a response it does not retry
GTerminal(r) ==
    IF ResponseOk(StatusOf(r))
    THEN LET rd == ReadPath(r.body, "openai")
         IN  IF r.body.level = "notjson" THEN Thrown("SyntaxError")
             ELSE IF rd.threw THEN Thrown("TypeError")
             ELSE IF rd.isString THEN Success(rd.value)
             ELSE [Pending EXCEPT !.kind = "error", !.errType = "UnexpectedFormat"]
    ELSE [Pending EXCEPT !.kind = "error", !.errType = "RestApiError",
                         !.status = r.status,
                         !.statusText = StatusText(StatusOf(r))]

\* the body complete() serialises: the properties of defaultParams spread
\* first, then messages, model and stream
GRequestBody(params, messages, modelName) ==
    JSONstringify(params \cup {<<"messages", List(messages)>>,
                               <<"model", StrOpt(modelName)>>,
                               <<"stream", Bool(FALSE)>>})

\* const headers of createGeneralLanguageModel.  A header value is the
\* sequence of the strings it is concatenated from
GHeaders(apiKey, org) ==
    {<<"Authorization", <<"Bearer ", apiKey>>>>,
     <<"Content-Type", <<"application/json">>>>,
     <<"Organization", <<org>>>>}

\* interface PromptCellChatResponse, the schema the validator is created with
PromptCellChatResponseRequired == {<<"format", "string">>, <<"response", "string">>}

PromptCellChatResponseOptional == {<<"tags", "array">>}

\* the validator on a parsed completion
ValidCellResponse(data) ==
    /\ data.kind = "object"
    /\ \A f \in PromptCellChatResponseRequired :
           \E g \in data.fields : g[1] = f[1] /\ g[2] = f[2]
    /\ \A g \in data.fields :
           <<g[1], g[2]>> \in PromptCellChatResponseRequired
                              \cup PromptCellChatResponseOptional
    /\ \A g \in data.fields :
           g[1] = "format" => g[3] \in {"plaintext", "markdown"}

\* translator.translate(prompt) on the outcome `res` of the model's last
\* complete(): a rejection of complete() passes through, a returned error is
\* returned as it is, a completion is validated against the schema
CellTranslate(res) ==
    IF res.kind = "thrown"
    THEN [kind |-> "thrown", success |-> FALSE, data |-> NoData,
          message |-> res.errType]
    ELSE IF res.kind = "error"
    THEN [kind |-> "returned", success |-> FALSE, data |-> NoData,
          message |-> res.errType]
    ELSE LET parsed == JSONparse(res.content)
         IN  IF parsed.ok /\ ValidCellResponse(parsed.data)
             THEN [kind |-> "returned", success |-> TRUE, data |-> parsed.data,
                   message |-> ""]
             ELSE [kind |-> "returned", success |-> FALSE, data |-> NoData,
                   message |-> "ValidationFailed"]

\* endTime - startTime on the clock of the model: an HTTP exchange takes one
\* unit, a sleep its ms
Elapsed(exchanges, slept, pause) == exchanges + Len(slept) * pause

\* executeCellPrompt from the end of translate on: a failed translation is
\* thrown as Error("Failed to translate prompt: ..."), a success is wrapped
\* with the metadata of the call
WrapChatResponse(t, r, params, duration) ==
    IF t.kind = "thrown"
    THEN [NoWrap EXCEPT !.kind = "thrown", !.message = t.message]
    ELSE IF ~t.success
    THEN [NoWrap EXCEPT !.kind = "thrown", !.message = "FailedToTranslate"]
    ELSE [kind |-> "returned",
          meta |-> {[org |-> r.org, model |-> r.modelName, duration |-> duration,
                     temperature |-> Get(params, "temperature"),
                     maxTokens |-> Get(params, "maxTokens")]},
          data |-> t.data,
          message |-> ""]

\* the body a model made by a registered factory sends: createModel hands the
\* factory apiKey, model, endPoint and org, and not defaultParams
FactoryRequestBody(messages, modelName) ==
    JSONstringify({<<"messages", List(messages)>>, <<"model", StrOpt(modelName)>>})

\* registerModelFactory(org, factory)
registerModelFactory(org) ==
    /\ org \notin modelFactories
    /\ modelFactories' = modelFactories \cup {org}
    /\ UNCHANGED appVars
    /\ UNCHANGED <<reqBody, reqHeaders, wrap, model, path, cfg, pc, req,
                   retryCount, retryMax, pauseMs, sends, sleeps, nResp,
                   nTransient, lastResp, result, tr>>

\* executeCellPrompt up to the first await of complete(): the settings are
\* resolved, the model is created, translate calls complete, which issues the
\* first fetch (or, for an org with a registered factory, whatever the
\* factory's model does)
executeCellPrompt(c) ==
    /\ pc[c] = "idle"
    /\ path[c] = "G"
    /\ LET r == ResolveCellPrompt(cfg[c])
       IN  /\ req' = [req EXCEPT ![c] = r]
           /\ IF r.org \in modelFactories
              THEN /\ pc' = [pc EXCEPT ![c] = "factory"]
                   /\ reqBody' = [reqBody EXCEPT
                          ![c] = FactoryRequestBody(cfg[c].messages, r.modelName)]
                   /\ UNCHANGED <<retryCount, retryMax, pauseMs, sends, result,
                                  wrap, reqHeaders>>
              ELSE /\ retryCount' = [retryCount EXCEPT ![c] = 0]
                   /\ retryMax' = [retryMax EXCEPT
                          ![c] = Nullish(model.retryMaxAttempts, DefaultRetryMaxAttempts)]
                   /\ pauseMs' = [pauseMs EXCEPT
                          ![c] = Nullish(model.retryPauseMs, DefaultRetryPauseMs)]
                   /\ reqBody' = [reqBody EXCEPT
                          ![c] = GRequestBody(defaultParams(cfg[c]), cfg[c].messages,
                                              r.modelName)]
                   /\ reqHeaders' = [reqHeaders EXCEPT
                          ![c] = GHeaders(cfg[c].apiKey, r.org)]
                   /\ IF CanFetch(r.url)
                      THEN /\ pc' = [pc EXCEPT ![c] = "fetch"]
                           /\ sends' = [sends EXCEPT ![c] = @ + 1]
                           /\ UNCHANGED <<result, wrap>>
                      ELSE /\ pc' = [pc EXCEPT ![c] = "done"]
                           /\ sends' = sends
                           /\ result' = [result EXCEPT ![c] = Thrown("TypeError")]
                           /\ wrap' = [wrap EXCEPT ![c] =
                                  WrapChatResponse(CellTranslate(Thrown("TypeError")),
                                                   r, defaultParams(cfg[c]), 0)]
    /\ UNCHANGED appVars
    /\ UNCHANGED <<modelFactories, model, path, cfg, sleeps, nResp, nTransient,
                   lastResp, tr>>

\* what the model of a registered factory can answer translate with
FactoryResults ==
    {Success(t) : t \in Texts}
    \cup {[Pending EXCEPT !.kind = "error", !.errType = "FactoryError"]}

\* the complete() of a factory's model is over
FactoryReturns(c, res) ==
    /\ pc[c] = "factory"
    /\ path[c] = "G"
    /\ result' = [result EXCEPT ![c] = res]
    /\ wrap' = [wrap EXCEPT ![c] =
           WrapChatResponse(CellTranslate(res), req[c], defaultParams(cfg[c]), 1)]
    /\ pc' = [pc EXCEPT ![c] = "done"]
    /\ UNCHANGED appVars
    /\ UNCHANGED <<modelFactories, reqBody, reqHeaders, model, path, cfg, req,
                   retryCount, retryMax, pauseMs, sends, sleeps, nResp,
                   nTransient, lastResp, tr>>

\* complete() resumes with the response of fetch
GOnResponse_OffByOne(c, r) ==
    /\ pc[c] = "fetch"
    /\ path[c] = "G"
    /\ lastResp' = [lastResp EXCEPT ![c] = r]
    /\ nResp' = [nResp EXCEPT ![c] = @ + 1]
    /\ nTransient' = [nTransient EXCEPT
           ![c] = IF StatusOf(r) \in {429, 500, 502, 503, 504} THEN @ + 1 ELSE @]
    /\ IF ResponseOk(StatusOf(r)) \/ ~isTransientHttpError(StatusOf(r))
          \/ retryCount[c] > retryMax[c]
       THEN /\ result' = [result EXCEPT ![c] = GTerminal(r)]
            /\ wrap' = [wrap EXCEPT ![c] =
                   WrapChatResponse(CellTranslate(GTerminal(r)), req[c],
                                    defaultParams(cfg[c]),
                                    Elapsed(nResp[c] + 1, sleeps[c], pauseMs[c]))]
            /\ pc' = [pc EXCEPT ![c] = "done"]
            /\ sleeps' = sleeps
       ELSE /\ sleeps' = [sleeps EXCEPT
                   ![c] = Append(@, SleepMs(pauseMs[c], retryCount[c]))]
            /\ pc' = [pc EXCEPT ![c] = "sleep"]
            /\ UNCHANGED <<result, wrap>>
    /\ UNCHANGED appVars
    /\ UNCHANGED <<modelFactories, reqBody, reqHeaders, model, path, cfg, req,
                   retryCount, retryMax, pauseMs, sends, tr>>

GOnResponse(c, r) ==
    /\ pc[c] = "fetch"
    /\ path[c] = "G"
    /\ lastResp' = [lastResp EXCEPT ![c] = r]
    /\ nResp' = [nResp EXCEPT ![c] = @ + 1]
    /\ nTransient' = [nTransient EXCEPT
           ![c] = IF StatusOf(r) \in {429, 500, 502, 503, 504} THEN @ + 1 ELSE @]
    /\ IF ResponseOk(StatusOf(r)) \/ ~isTransientHttpError(StatusOf(r))
          \/ retryCount[c] >= retryMax[c]
       THEN /\ result' = [result EXCEPT ![c] = GTerminal(r)]
            /\ wrap' = [wrap EXCEPT ![c] =
                   WrapChatResponse(CellTranslate(GTerminal(r)), req[c],
                                    defaultParams(cfg[c]),
                                    Elapsed(nResp[c] + 1, sleeps[c], pauseMs[c]))]
            /\ pc' = [pc EXCEPT ![c] = "done"]
            /\ sleeps' = sleeps
       ELSE /\ sleeps' = [sleeps EXCEPT
                   ![c] = Append(@, SleepMs(pauseMs[c], retryCount[c]))]
            /\ pc' = [pc EXCEPT ![c] = "sleep"]
            /\ UNCHANGED <<result, wrap>>
    /\ UNCHANGED appVars
    /\ UNCHANGED <<modelFactories, reqBody, reqHeaders, model, path, cfg, req,
                   retryCount, retryMax, pauseMs, sends, tr>>

\* fetch rejects: nothing in complete() catches it, so the call rejects
GOnReject_Retry(c) ==
    /\ pc[c] = "fetch"
    /\ path[c] = "G"
    /\ lastResp' = [lastResp EXCEPT ![c] = Rejection]
    /\ IF retryCount[c] >= retryMax[c]
       THEN /\ result' = [result EXCEPT ![c] = Thrown("NetworkError")]
            /\ wrap' = [wrap EXCEPT ![c] =
                   WrapChatResponse(CellTranslate(Thrown("NetworkError")), req[c],
                                    defaultParams(cfg[c]),
                                    Elapsed(nResp[c] + 1, sleeps[c], pauseMs[c]))]
            /\ pc' = [pc EXCEPT ![c] = "done"]
            /\ sleeps' = sleeps
       ELSE /\ sleeps' = [sleeps EXCEPT ![c] = Append(@, pauseMs[c])]
            /\ pc' = [pc EXCEPT ![c] = "sleep"]
            /\ UNCHANGED <<result, wrap>>
    /\ UNCHANGED appVars
    /\ UNCHANGED <<modelFactories, reqBody, reqHeaders, model, path, cfg, req, retryCount, retryMax, pauseMs, sends,
                   nResp, nTransient, tr>>

GOnReject(c) ==
    /\ pc[c] = "fetch"
    /\ path[c] = "G"
    /\ lastResp' = [lastResp EXCEPT ![c] = Rejection]
    /\ result' = [result EXCEPT ![c] = Thrown("NetworkError")]
    /\ wrap' = [wrap EXCEPT ![c] =
           WrapChatResponse(CellTranslate(Thrown("NetworkError")), req[c],
                            defaultParams(cfg[c]),
                            Elapsed(nResp[c] + 1, sleeps[c], pauseMs[c]))]
    /\ pc' = [pc EXCEPT ![c] = "done"]
    /\ UNCHANGED appVars
    /\ UNCHANGED <<modelFactories, reqBody, reqHeaders, model, path, cfg, req, retryCount, retryMax, pauseMs, sends,
                   sleeps, nResp, nTransient, tr>>

\* the sleep is over, with retryCount held by the model instead of the call
GSleepDone_SharedCount(c) ==
    /\ pc[c] = "sleep"
    /\ path[c] = "G"
    /\ retryCount' = [x \in CallIds |-> retryCount[x] + 1]
    /\ sends' = [sends EXCEPT ![c] = @ + 1]
    /\ pc' = [pc EXCEPT ![c] = "fetch"]
    /\ UNCHANGED appVars
    /\ UNCHANGED <<modelFactories, reqBody, reqHeaders, wrap, model, path, cfg, req, retryMax, pauseMs, sleeps, nResp,
                   nTransient, lastResp, result, tr>>

\* the sleep is over, without retryCount++
GSleepDone_NoCount(c) ==
    /\ pc[c] = "sleep"
    /\ path[c] = "G"
    /\ sends' = [sends EXCEPT ![c] = @ + 1]
    /\ pc' = [pc EXCEPT ![c] = "fetch"]
    /\ UNCHANGED appVars
    /\ UNCHANGED <<modelFactories, reqBody, reqHeaders, wrap, model, path, cfg, req, retryCount, retryMax, pauseMs, sleeps, nResp,
                   nTransient, lastResp, result, tr>>

\* the sleep is over: retryCount++ and the loop issues the next fetch
GSleepDone(c) ==
    /\ pc[c] = "sleep"
    /\ path[c] = "G"
    /\ retryCount' = [retryCount EXCEPT ![c] = @ + 1]
    /\ sends' = [sends EXCEPT ![c] = @ + 1]
    /\ pc' = [pc EXCEPT ![c] = "fetch"]
    /\ UNCHANGED appVars
    /\ UNCHANGED <<modelFactories, reqBody, reqHeaders, wrap, model, path, cfg, req, retryMax, pauseMs, sleeps, nResp,
                   nTransient, lastResp, result, tr>>

-----------------------------------------------------------------------------
(* Path U: UniversalLLMProvider *)

\* the values of enum LLMProvider
LLMProvider == {"openai", "deepseek", "qwen", "anthropic", "gemini", "mistral"}

\* String.prototype.toLowerCase on the provider names above
ToLowerCase(s) == IF s = "OpenAI" THEN "openai" ELSE s

getApiEndpoint(provider, apiEndpoint) ==
    IF apiEndpoint \notin {"", Undefined} THEN apiEndpoint
    ELSE CASE provider = "openai" -> "https://api.openai.com/v1/chat/completions"
           [] provider = "deepseek" -> "https://api.deepseek.com/v1/chat/completions"
           [] provider = "qwen" ->
                "https://dashscope.aliyuncs.com/api/v1/services/aigc/text-generation/generation"
           [] provider = "anthropic" -> "https://api.anthropic.com/v1/messages"
           [] provider = "gemini" ->
                "https://generativelanguage.googleapis.com/v1beta/models/gemini-pro:generateContent"
           [] provider = "mistral" -> "https://api.mistral.ai/v1/chat/completions"
           [] OTHER -> Undefined

\* the family of response body extractResponseContent reads for a provider
ExtractFamily(provider) ==
    CASE provider \in {"openai", "deepseek", "mistral"} -> "openai"
      [] provider = "qwen" -> "qwen"
      [] provider = "anthropic" -> "anthropic"
      [] provider = "gemini" -> "gemini"

\* extractResponseContent inside complete()'s try: a TypeError of the read is
\* caught and rethrown as Error("Error calling <provider> API: ..."), anything
\* else found at the path becomes LLMResponse.content
extractResponseContent(provider, body) ==
    LET rd == ReadPath(body, ExtractFamily(provider))
    IN  IF rd.threw THEN Thrown("ErrorCalling") ELSE Success(rd.value)

\* the defaults of the constructor (temperature and topP in tenths)
UDefaultTemperature == 7

UDefaultMaxTokens == 1000

UDefaultTopP == 10

\* this.config of the constructor: the defaults, overwritten by the keys the
\* caller's config has
UConfig(c) ==
    [temperature |-> Nullish(c.temperature, UDefaultTemperature),
     maxTokens |-> Nullish(c.maxTokens, UDefaultMaxTokens),
     topP |-> Nullish(c.topP, UDefaultTopP)]

getAuthHeader(provider, apiKey) ==
    CASE provider \in {"openai", "deepseek", "mistral"} ->
            {<<"Authorization", <<"Bearer ", apiKey>>>>}
      [] provider = "qwen" -> {<<"Authorization", <<"Bearer ", apiKey>>>>}
      [] provider = "anthropic" -> {<<"x-api-key", <<apiKey>>>>}
      [] provider = "gemini" -> {}

\* every message sent under the role model
GeminiContent_AllModel(msg) ==
    [role |-> "model", parts |-> <<[text |-> msg.content]>>]

\* the element of contents a message becomes
GeminiContent(msg) ==
    [role |-> IF msg.role = "assistant" THEN "model" ELSE msg.role,
     parts |-> <<[text |-> msg.content]>>]

\* the OpenAI payload for every provider
formatRequestPayload_OpenAIOnly(provider, modelName, messages, config) ==
    {<<"model", StrOpt(modelName)>>,
     <<"messages", List(messages)>>,
     <<"temperature", Num(config.temperature)>>,
     <<"max_tokens", Num(config.maxTokens)>>,
     <<"top_p", Num(config.topP)>>}

\* the payload object, a nested key as the path to it
formatRequestPayload(provider, modelName, messages, config) ==
    CASE provider \in {"openai", "deepseek", "mistral"} ->
            {<<"model", StrOpt(modelName)>>,
             <<"messages", List(messages)>>,
             <<"temperature", Num(config.temperature)>>,
             <<"max_tokens", Num(config.maxTokens)>>,
             <<"top_p", Num(config.topP)>>}
      [] provider = "qwen" ->
            {<<"model", StrOpt(modelName)>>,
             <<"input.messages", List(messages)>>,
             <<"parameters.temperature", Num(config.temperature)>>,
             <<"parameters.max_tokens", Num(config.maxTokens)>>,
             <<"parameters.top_p", Num(config.topP)>>}
      [] provider = "anthropic" ->
            {<<"model", StrOpt(modelName)>>,
             <<"messages", List(messages)>>,
             <<"max_tokens", Num(config.maxTokens)>>,
             <<"temperature", Num(config.temperature)>>,
             <<"top_p", Num(config.topP)>>}
      [] provider = "gemini" ->
            {<<"contents", List([i \in 1..Len(messages) |-> GeminiContent(messages[i])])>>,
             <<"generationConfig.temperature", Num(config.temperature)>>,
             <<"generationConfig.topP", Num(config.topP)>>,
             <<"generationConfig.maxOutputTokens", Num(config.maxTokens)>>}

\* which field of data.usage each field of LLMResponse.usage is read from, as
\* <<result field, payload field>>; Gemini's result has no usage
UsageFields(provider) ==
    CASE provider \in {"openai", "deepseek", "mistral"} ->
            {<<"promptTokens", "prompt_tokens">>,
             <<"completionTokens", "completion_tokens">>,
             <<"totalTokens", "total_tokens">>}
      [] provider = "qwen" -> {<<"totalTokens", "total_tokens">>}
      [] provider = "anthropic" ->
            {<<"promptTokens", "input_tokens">>,
             <<"completionTokens", "output_tokens">>}
      [] provider = "gemini" -> {}

\* a missing count read as 0
extractUsage_ZeroDefault(provider, usage) ==
    {<<f[1], IF \E p \in usage.fields : p[1] = f[2]
             THEN (CHOOSE p \in usage.fields : p[1] = f[2])[2]
             ELSE 0>> : f \in UsageFields(provider)}

\* the fields of LLMResponse.usage that hold a number: data.usage?.<field>
\* is undefined when data has no usage or usage has no such field
extractUsage(provider, usage) ==
    {<<f[1], p[2]>> : <<f, p>> \in
        {x \in UsageFields(provider) \X usage.fields :
            usage.has /\ x[2][1] = x[1][2]}}

\* fromConfig and complete() up to axios.post
UComplete(c) ==
    /\ pc[c] = "idle"
    /\ path[c] = "U"
    /\ LET provider == ToLowerCase(cfg[c].provider)
       IN  IF provider \notin LLMProvider
           THEN /\ result' = [result EXCEPT ![c] = Thrown("UnsupportedProvider")]
                /\ pc' = [pc EXCEPT ![c] = "done"]
                /\ UNCHANGED <<req, sends, reqBody, reqHeaders>>
           ELSE /\ req' = [req EXCEPT ![c] =
                       [org |-> provider,
                        url |-> getApiEndpoint(provider, cfg[c].endpoint),
                        modelName |-> cfg[c].llmModel,
                        query |-> IF provider = "gemini"
                                  THEN {<<"key", cfg[c].apiKey>>} ELSE {}]]
                /\ reqHeaders' = [reqHeaders EXCEPT ![c] =
                       {<<"Content-Type", <<"application/json">>>>}
                       \cup getAuthHeader(provider, cfg[c].apiKey)]
                /\ reqBody' = [reqBody EXCEPT ![c] =
                       JSONstringify(formatRequestPayload(provider, cfg[c].llmModel,
                                                          cfg[c].messages,
                                                          UConfig(cfg[c])))]
                /\ sends' = [sends EXCEPT ![c] = @ + 1]
                /\ pc' = [pc EXCEPT ![c] = "fetch"]
                /\ result' = result
    /\ UNCHANGED appVars
    /\ UNCHANGED <<modelFactories, wrap, model, path, cfg, retryCount, retryMax, pauseMs, sleeps, nResp,
                   nTransient, lastResp, tr>>

\* axios.post resolves (2xx) or rejects with error.response (any other status)
UOnResponse(c, r) ==
    /\ pc[c] = "fetch"
    /\ path[c] = "U"
    /\ lastResp' = [lastResp EXCEPT ![c] = r]
    /\ nResp' = [nResp EXCEPT ![c] = @ + 1]
    /\ nTransient' = [nTransient EXCEPT
           ![c] = IF StatusOf(r) \in {429, 500, 502, 503, 504} THEN @ + 1 ELSE @]
    /\ result' = [result EXCEPT ![c] =
           IF ResponseOk(StatusOf(r))
           THEN LET res == extractResponseContent(req[c].org, r.body)
                IN  IF res.kind = "success"
                    THEN [res EXCEPT !.hasUsage = req[c].org # "gemini",
                                     !.usage = extractUsage(req[c].org, r.usage)]
                    ELSE res
           ELSE [Thrown("ApiError") EXCEPT !.status = r.status, !.body = {r.body}]]
    /\ pc' = [pc EXCEPT ![c] = "done"]
    /\ UNCHANGED appVars
    /\ UNCHANGED <<modelFactories, reqBody, reqHeaders, wrap, model, path, cfg, req, retryCount, retryMax, pauseMs, sends,
                   sleeps, tr>>

\* axios.post rejects without a response
UOnReject(c) ==
    /\ pc[c] = "fetch"
    /\ path[c] = "U"
    /\ lastResp' = [lastResp EXCEPT ![c] = Rejection]
    /\ result' = [result EXCEPT ![c] = Thrown("ErrorCalling")]
    /\ pc' = [pc EXCEPT ![c] = "done"]
    /\ UNCHANGED appVars
    /\ UNCHANGED <<modelFactories, reqBody, reqHeaders, wrap, model, path, cfg, req, retryCount, retryMax, pauseMs, sends,
                   sleeps, nResp, nTransient, tr>>

-----------------------------------------------------------------------------
(* Path T: createJsonTranslator(...).translate over ThirdPartyLanguageModel *)

\* PROVIDER_CONFIGS[provider]?.baseURL
PROVIDER_CONFIGS(provider) ==
    CASE provider = "deepseek" -> "https://api.deepseek.com/v1"
      [] provider = "qwen" -> "https://dashscope.aliyuncs.com/compatible-mode/v1"
      [] provider = "openai" -> "https://api.openai.com/v1"
      [] OTHER -> Undefined

ProviderConfigKeys == {"deepseek", "qwen", "openai"}

\* PROVIDER_CONFIGS[provider]?.defaultModel
ProviderDefaultModel(provider) ==
    CASE provider = "deepseek" -> "deepseek-chat"
      [] provider = "qwen" -> "qwen-turbo"
      [] provider = "openai" -> "gpt-3.5-turbo"
      [] OTHER -> Undefined

\* complete() of a model that keeps state across calls: it reads the answer
\* of the first call only, and fails every later one
TComplete_FirstCallOnly(r) ==
    IF r.rejected \/ nResp["a"] + nResp["b"] > 0 THEN Thrown("LLMRequestFailed")
    ELSE IF ~ResponseOk(StatusOf(r))
    THEN [Thrown("LLMRequestFailed") EXCEPT !.status = r.status,
                                            !.statusText = StatusText(StatusOf(r))]
    ELSE LET rd == ReadPathOptional(r.body)
         IN  IF rd.threw THEN Thrown("LLMRequestFailed")
             ELSE Success(OrElse(rd.value, ""))

\* ThirdPartyLanguageModel.complete on the outcome of its fetch: whatever is
\* thrown inside the try is rethrown as Error("LLM request failed: ...")
TComplete(r) ==
    IF r.rejected THEN Thrown("LLMRequestFailed")
    ELSE IF ~ResponseOk(StatusOf(r))
    THEN [Thrown("LLMRequestFailed") EXCEPT !.status = r.status,
                                            !.statusText = StatusText(StatusOf(r))]
    ELSE LET rd == ReadPathOptional(r.body)
         IN  IF rd.threw THEN Thrown("LLMRequestFailed")
             ELSE Success(OrElse(rd.value, ""))

\* translate without its try/catch
translate_NoCatch(res) ==
    IF res.kind = "thrown"
    THEN [kind |-> "thrown", success |-> FALSE, data |-> NoData,
          message |-> res.errType]
    ELSE LET parsed == JSONparse(res.content)
         IN  IF parsed.ok
             THEN [kind |-> "returned", success |-> TRUE, data |-> parsed.data,
                   message |-> ""]
             ELSE [kind |-> "thrown", success |-> FALSE, data |-> NoData,
                   message |-> "SyntaxError"]

\* translate() of llmSchema.ts on the outcome `res` of model.complete: the
\* try/catch turns a rejection of complete and a SyntaxError of JSON.parse
\* alike into {success:false, message: error.message}
translate(res) ==
    IF res.kind = "thrown"
    THEN [kind |-> "returned", success |-> FALSE, data |-> NoData,
          message |-> res.errType]
    ELSE LET parsed == JSONparse(res.content)
         IN  IF parsed.ok
             THEN [kind |-> "returned", success |-> TRUE, data |-> parsed.data,
                   message |-> ""]
             ELSE [kind |-> "returned", success |-> FALSE, data |-> NoData,
                   message |-> "SyntaxError"]

\* the defaults of ThirdPartyLanguageModel.complete (temperature in tenths)
TDefaultTemperature == 7

TDefaultMaxTokens == 2000

\* const body of ThirdPartyLanguageModel.complete
TRequestBody(c) ==
    JSONstringify(
        {<<"model", StrOpt(OrElse(c.llmModel, ProviderDefaultModel(c.provider)))>>,
         <<"messages", List(c.messages)>>,
         <<"temperature", Num(NumOrElse(c.temperature, TDefaultTemperature))>>,
         <<"max_tokens", Num(NumOrElse(c.maxTokens, TDefaultMaxTokens))>>})

\* const headers of ThirdPartyLanguageModel.complete: the provider's own
\* headers repeat Content-Type
THeaders(apiKey) ==
    {<<"Authorization", <<"Bearer ", apiKey>>>>,
     <<"Content-Type", <<"application/json">>>>}

\* translate(prompt) up to the fetch of complete(), or to its end when
\* complete() throws before sending
TTranslate(c) ==
    /\ pc[c] = "idle"
    /\ path[c] = "T"
    /\ LET baseURL == OrElse(cfg[c].endpoint, PROVIDER_CONFIGS(cfg[c].provider))
       IN  IF baseURL = Undefined
           THEN /\ result' = [result EXCEPT ![c] = Thrown("UnsupportedProvider")]
                /\ tr' = [tr EXCEPT ![c] = translate(Thrown("UnsupportedProvider"))]
                /\ pc' = [pc EXCEPT ![c] = "done"]
                /\ UNCHANGED <<req, sends, reqBody, reqHeaders>>
           ELSE /\ req' = [req EXCEPT ![c] =
                       [org |-> cfg[c].provider,
                        url |-> baseURL,
                        modelName |-> OrElse(cfg[c].llmModel,
                                             ProviderDefaultModel(cfg[c].provider)),
                        query |-> {}]]
                /\ reqBody' = [reqBody EXCEPT ![c] = TRequestBody(cfg[c])]
                /\ reqHeaders' = [reqHeaders EXCEPT ![c] = THeaders(cfg[c].apiKey)]
                /\ sends' = [sends EXCEPT ![c] = @ + 1]
                /\ pc' = [pc EXCEPT ![c] = "fetch"]
                /\ UNCHANGED <<result, tr>>
    /\ UNCHANGED appVars
    /\ UNCHANGED <<modelFactories, wrap, model, path, cfg, retryCount, retryMax, pauseMs, sleeps, nResp,
                   nTransient, lastResp>>

\* fetch resolves: complete() finishes and translate() with it
TOnResponse(c, r) ==
    /\ pc[c] = "fetch"
    /\ path[c] = "T"
    /\ lastResp' = [lastResp EXCEPT ![c] = r]
    /\ nResp' = [nResp EXCEPT ![c] = @ + 1]
    /\ nTransient' = [nTransient EXCEPT
           ![c] = IF StatusOf(r) \in {429, 500, 502, 503, 504} THEN @ + 1 ELSE @]
    /\ result' = [result EXCEPT ![c] = TComplete(r)]
    /\ tr' = [tr EXCEPT ![c] = translate(TComplete(r))]
    /\ pc' = [pc EXCEPT ![c] = "done"]
    /\ UNCHANGED appVars
    /\ UNCHANGED <<modelFactories, reqBody, reqHeaders, wrap, model, path, cfg, req, retryCount, retryMax, pauseMs, sends,
                   sleeps>>

\* fetch rejects
TOnReject(c) ==
    /\ pc[c] = "fetch"
    /\ path[c] = "T"
    /\ lastResp' = [lastResp EXCEPT ![c] = Rejection]
    /\ result' = [result EXCEPT ![c] = TComplete(Rejection)]
    /\ tr' = [tr EXCEPT ![c] = translate(TComplete(Rejection))]
    /\ pc' = [pc EXCEPT ![c] = "done"]
    /\ UNCHANGED appVars
    /\ UNCHANGED <<modelFactories, reqBody, reqHeaders, wrap, model, path, cfg, req, retryCount, retryMax, pauseMs, sends,
                   sleeps, nResp, nTransient>>

-----------------------------------------------------------------------------
(* Specification: one call of one entry point against a provider stub *)

\* call "a" is about to enter entry point p with configuration c; call "b"
\* is not made in this specification
InitCall(p, c) ==
    /\ path = [x \in CallIds |-> IF x = "a" THEN p ELSE "G"]
    /\ cfg = [x \in CallIds |-> IF x = "a" THEN c ELSE UnsetConfig]
    /\ pc = [x \in CallIds |-> IF x = "a" THEN "idle" ELSE "unused"]
    /\ req = [x \in CallIds |-> NoReq]
    /\ retryCount = [x \in CallIds |-> 0]
    /\ retryMax = [x \in CallIds |-> 0]
    /\ pauseMs = [x \in CallIds |-> 0]
    /\ sends = [x \in CallIds |-> 0]
    /\ sleeps = [x \in CallIds |-> <<>>]
    /\ nResp = [x \in CallIds |-> 0]
    /\ nTransient = [x \in CallIds |-> 0]
    /\ lastResp = [x \in CallIds |-> NoResp]
    /\ result = [x \in CallIds |-> Pending]
    /\ tr = [x \in CallIds |-> NoTranslation]
    /\ modelFactories = {}
    /\ reqBody = [x \in CallIds |-> {}]
    /\ reqHeaders = [x \in CallIds |-> {}]
    /\ wrap = [x \in CallIds |-> NoWrap]
    /\ AppIdle

NoRetryFields == [retryMaxAttempts |-> Absent, retryPauseMs |-> Absent]

\* no call of the LLM layer is made
LlmIdle ==
    /\ model = NoRetryFields
    /\ path = [x \in CallIds |-> "G"]
    /\ cfg = [x \in CallIds |-> UnsetConfig]
    /\ pc = [x \in CallIds |-> "unused"]
    /\ req = [x \in CallIds |-> NoReq]
    /\ retryCount = [x \in CallIds |-> 0]
    /\ retryMax = [x \in CallIds |-> 0]
    /\ pauseMs = [x \in CallIds |-> 0]
    /\ sends = [x \in CallIds |-> 0]
    /\ sleeps = [x \in CallIds |-> <<>>]
    /\ nResp = [x \in CallIds |-> 0]
    /\ nTransient = [x \in CallIds |-> 0]
    /\ lastResp = [x \in CallIds |-> NoResp]
    /\ result = [x \in CallIds |-> Pending]
    /\ tr = [x \in CallIds |-> NoTranslation]
    /\ modelFactories = {}
    /\ reqBody = [x \in CallIds |-> {}]
    /\ reqHeaders = [x \in CallIds |-> {}]
    /\ wrap = [x \in CallIds |-> NoWrap]

\* nothing is going on outside one part of the extension
IdleExceptNb == LlmIdle /\ FmtIdle /\ SerIdle /\ SaveIdle /\ KernelIdle /\ BmIdle

IdleExceptFmt == LlmIdle /\ NbIdle /\ SerIdle /\ SaveIdle /\ KernelIdle /\ BmIdle

IdleExceptSer == LlmIdle /\ NbIdle /\ FmtIdle /\ SaveIdle /\ KernelIdle /\ BmIdle

IdleExceptSave == LlmIdle /\ NbIdle /\ FmtIdle /\ SerIdle /\ KernelIdle /\ BmIdle

IdleExceptKernel == LlmIdle /\ NbIdle /\ FmtIdle /\ SerIdle /\ SaveIdle /\ BmIdle

IdleExceptBm == LlmIdle /\ NbIdle /\ FmtIdle /\ SerIdle /\ SaveIdle /\ KernelIdle

Init ==
    \/ /\ model \in ModelObjects
       /\ \E c \in Configs(GProviderInputs) : InitCall("G", c)
    \/ /\ model = NoRetryFields
       /\ \E c \in Configs(UProviderInputs) : InitCall("U", c)
    \/ /\ model = NoRetryFields
       /\ \E c \in Configs(TProviderInputs) : InitCall("T", c)

Next ==
    \E c \in CallIds :
        \/ executeCellPrompt(c)
        \/ \E r \in Responses : GOnResponse(c, r)
        \/ GOnReject(c)
        \/ GSleepDone(c)
        \/ UComplete(c)
        \/ \E r \in Responses : UOnResponse(c, r)
        \/ UOnReject(c)
        \/ TTranslate(c)
        \/ \E r \in Responses : TOnResponse(c, r)
        \/ TOnReject(c)

Spec == Init /\ [][Next]_vars

\* one call of each entry point with the provider set to openai, under every
\* model object
InitLive ==
    \/ /\ model \in ModelObjects
       /\ InitCall("G", UnsetConfig)
    \/ /\ model = NoRetryFields
       /\ InitCall("U", [UnsetConfig EXCEPT !.provider = "openai"])
    \/ /\ model = NoRetryFields
       /\ InitCall("T", [UnsetConfig EXCEPT !.provider = "openai"])

\* every HTTP call settles and every sleep ends: a continuation that can run
\* does run
SpecLive == InitLive /\ [][Next]_vars /\ WF_vars(Next)

-----------------------------------------------------------------------------
(* Specification: executeCellPrompt under every setting of the generation  *)
(* parameters, with and without a registered model factory                 *)

\* what a caller can set a generation parameter to
TemperatureInputs == {Absent} \cup {{n} : n \in 0..MaxTemperatureSetting}

MaxTokensInputs == {Absent} \cup {{n} : n \in 0..MaxTokensSetting}

TopPInputs == {Absent} \cup {{n} : n \in 0..MaxTopPSetting}

\* the settings executeCellPrompt reads
CellConfigs ==
    [provider : {"", "deepseek"}, endpoint : {Undefined}, llmModel : {"", "m-1"},
     temperature : TemperatureInputs, maxTokens : MaxTokensInputs,
     topP : {Absent}, apiKey : {ApiKey}, messages : {PromptMessages}]

\* the orgs a caller registers a factory for
FactoryOrgs == {"deepseek"}

\* a model object that retries once
RetryOnce == [retryMaxAttempts |-> {1}, retryPauseMs |-> Absent]

InitCell ==
    /\ model = RetryOnce
    /\ \E c \in CellConfigs : InitCall("G", c)

NextCell ==
    \/ \E org \in FactoryOrgs : registerModelFactory(org)
    \/ \E c \in CallIds :
        \/ executeCellPrompt(c)
        \/ \E r \in Responses : GOnResponse(c, r)
        \/ GOnReject(c)
        \/ GSleepDone(c)
        \/ \E res \in FactoryResults : FactoryReturns(c, res)

SpecCell == InitCell /\ [][NextCell]_vars

-----------------------------------------------------------------------------
(* Specification: two calls on one model instance, interleaved at their    *)
(* awaits                                                                  *)

\* a short list of answers of the provider stub
StubResponses ==
    {r \in Responses :
        /\ StatusOf(r) \in {200, 400, 429, 503}
        /\ r.body.family \in {"openai", "error"}
        /\ r.body.level = "leaf"
        /\ r.body.content \in {"not json", "quota exceeded",
                                "{\"format\":\"plaintext\",\"response\":\"hi\"}"}}

InitConc ==
    /\ model \in ModelObjects
    /\ path = [x \in CallIds |-> "G"]
    /\ cfg = [x \in CallIds |-> UnsetConfig]
    /\ pc = [x \in CallIds |-> "idle"]
    /\ req = [x \in CallIds |-> NoReq]
    /\ retryCount = [x \in CallIds |-> 0]
    /\ retryMax = [x \in CallIds |-> 0]
    /\ pauseMs = [x \in CallIds |-> 0]
    /\ sends = [x \in CallIds |-> 0]
    /\ sleeps = [x \in CallIds |-> <<>>]
    /\ nResp = [x \in CallIds |-> 0]
    /\ nTransient = [x \in CallIds |-> 0]
    /\ lastResp = [x \in CallIds |-> NoResp]
    /\ result = [x \in CallIds |-> Pending]
    /\ tr = [x \in CallIds |-> NoTranslation]
    /\ modelFactories = {}
    /\ reqBody = [x \in CallIds |-> {}]
    /\ reqHeaders = [x \in CallIds |-> {}]
    /\ wrap = [x \in CallIds |-> NoWrap]
    /\ AppIdle

NextConc ==
    \E c \in CallIds :
        \/ executeCellPrompt(c)
        \/ \E r \in StubResponses : GOnResponse(c, r)
        \/ GOnReject(c)
        \/ GSleepDone(c)

SpecConc == InitConc /\ [][NextConc]_vars

-----------------------------------------------------------------------------
(* Specification: two translate calls with the same prompt and shape,      *)
(* interleaved at their awaits                                             *)

InitTwoTranslate ==
    /\ model = NoRetryFields
    /\ path = [x \in CallIds |-> "T"]
    /\ \E p \in {"openai", "custom"} :
           cfg = [x \in CallIds |-> [UnsetConfig EXCEPT !.provider = p]]
    /\ pc = [x \in CallIds |-> "idle"]
    /\ req = [x \in CallIds |-> NoReq]
    /\ retryCount = [x \in CallIds |-> 0]
    /\ retryMax = [x \in CallIds |-> 0]
    /\ pauseMs = [x \in CallIds |-> 0]
    /\ sends = [x \in CallIds |-> 0]
    /\ sleeps = [x \in CallIds |-> <<>>]
    /\ nResp = [x \in CallIds |-> 0]
    /\ nTransient = [x \in CallIds |-> 0]
    /\ lastResp = [x \in CallIds |-> NoResp]
    /\ result = [x \in CallIds |-> Pending]
    /\ tr = [x \in CallIds |-> NoTranslation]
    /\ modelFactories = {}
    /\ reqBody = [x \in CallIds |-> {}]
    /\ reqHeaders = [x \in CallIds |-> {}]
    /\ wrap = [x \in CallIds |-> NoWrap]
    /\ AppIdle

NextTwoTranslate ==
    \E c \in CallIds :
        \/ TTranslate(c)
        \/ \E r \in Responses : TOnResponse(c, r)
        \/ TOnReject(c)

SpecTwoTranslate == InitTwoTranslate /\ [][NextTwoTranslate]_vars

-----------------------------------------------------------------------------
(* Specification: the request each entry point builds, under every setting *)
(* of the generation parameters and every short conversation               *)

Messages == [role : {"system", "user", "assistant"}, content : {"hello", "ok"}]

\* the conversations of at most MaxMsgs messages
MessageLists == UNION {[1..n -> Messages] : n \in 0..MaxMsgs}

\* a config with the generation parameters set or not, one message
ParamConfigs(providers) ==
    [provider : providers, endpoint : {Undefined}, llmModel : {"m-1"},
     temperature : TemperatureInputs, maxTokens : MaxTokensInputs,
     topP : TopPInputs, apiKey : {ApiKey}, messages : {PromptMessages}]

\* a config with no generation parameter set, any conversation
MessageConfigs(providers) ==
    [provider : providers, endpoint : {Undefined, ProxyUrl}, llmModel : {"m-1"},
     temperature : {Absent}, maxTokens : {Absent}, topP : {Absent},
     apiKey : {ApiKey}, messages : MessageLists]

InitPayload ==
    \/ /\ model = RetryOnce
       /\ \E c \in ParamConfigs({""}) : InitCall("G", c)
    \/ /\ model = NoRetryFields
       /\ \E c \in ParamConfigs(LLMProvider) \cup MessageConfigs(LLMProvider) :
              InitCall("U", c)
    \/ /\ model = NoRetryFields
       /\ \E c \in ParamConfigs({"openai"}) : InitCall("T", c)

NextPayload ==
    \E c \in CallIds :
        \/ executeCellPrompt(c)
        \/ \E r \in StubResponses : GOnResponse(c, r)
        \/ GOnReject(c)
        \/ GSleepDone(c)
        \/ UComplete(c)
        \/ \E r \in StubResponses : UOnResponse(c, r)
        \/ UOnReject(c)
        \/ TTranslate(c)
        \/ \E r \in StubResponses : TOnResponse(c, r)
        \/ TOnReject(c)

SpecPayload == InitPayload /\ [][NextPayload]_vars

-----------------------------------------------------------------------------
(* Specification: UniversalLLMProvider against answers with and without    *)
(* token counts                                                            *)

\* the fields a provider's usage object can have
UsageNames ==
    {"prompt_tokens", "completion_tokens", "total_tokens", "input_tokens",
     "output_tokens"}

\* the token counts a provider reports
TokenCounts == {0, 5}

\* data.usage: missing, or an object with any of the fields
UsagePayloads ==
    {NoUsage}
    \cup {[has |-> TRUE, fields |-> {<<n, f[n]>> : n \in DOMAIN f}] :
             f \in UNION {[S -> TokenCounts] : S \in SUBSET UsageNames}}

\* 2xx answers of each family with a completion text
UsageResponses ==
    [rejected : {FALSE}, status : {{200}},
     body : [family : Families, level : {"leaf"}, content : {"hi"}],
     usage : UsagePayloads]

InitUsage ==
    /\ model = NoRetryFields
    /\ \E p \in LLMProvider :
           InitCall("U", [UnsetConfig EXCEPT !.provider = p, !.llmModel = "m-1"])

NextUsage ==
    \E c \in CallIds :
        \/ UComplete(c)
        \/ \E r \in UsageResponses : UOnResponse(c, r)
        \/ UOnReject(c)

SpecUsage == InitUsage /\ [][NextUsage]_vars

-----------------------------------------------------------------------------
(* The claims *)

\* the statuses the retry policy calls transient
RetryableStatuses == {429, 500, 502, 503, 504}

Done(c) == pc[c] = "done"

\* the call got an HTTP response as its last outcome, with this property
LastStatusIs(c, P(_)) ==
    /\ ~lastResp[c].rejected
    /\ HasStatus(lastResp[c])
    /\ P(StatusOf(lastResp[c]))

IsOk(s) == ResponseOk(s)

IsTerminalStatus(s) == ~ResponseOk(s) /\ s \notin RetryableStatuses

\* C1: a call of the general model's complete() that only ever receives
\* responses with a retryable status ends having sent retryMaxAttempts + 1
\* requests (3 + 1 when the model sets no retryMaxAttempts), having slept
\* retryMaxAttempts times, with a returned error; and no call ever sends more
\* than retryMaxAttempts + 1 requests.
C1_RetriesExactlyMax ==
    \A c \in CallIds :
        path[c] = "G" /\ pc[c] \notin {"unused", "idle"} =>
            /\ model.retryMaxAttempts = Absent => retryMax[c] = 3
            /\ model.retryMaxAttempts # Absent => {retryMax[c]} = model.retryMaxAttempts
            /\ sends[c] <= retryMax[c] + 1
            /\ (/\ Done(c)
                /\ ~lastResp[c].rejected
                /\ nResp[c] > 0
                /\ nTransient[c] = nResp[c])
               => /\ sends[c] = retryMax[c] + 1
                  /\ nResp[c] = retryMax[c] + 1
                  /\ Len(sleeps[c]) = retryMax[c]
                  /\ result[c].kind = "error"
                  /\ result[c].errType = "RestApiError"

\* C1 witness: with the default of 3, four retryable responses, four sends,
\* three sleeps and a returned error
C1_Witness ==
    \E c \in CallIds :
        /\ path[c] = "G" /\ Done(c)
        /\ model.retryMaxAttempts = Absent
        /\ nTransient[c] = 4 /\ nResp[c] = 4 /\ sends[c] = 4
        /\ Len(sleeps[c]) = 3
        /\ result[c].kind = "error"

\* C2: on the UniversalLLMProvider and ThirdPartyLanguageModel paths a
\* response with a retryable status is followed by a re-send: a finished call
\* that received such a response has sent more than one request.
C2_EveryPathRetries ==
    \A c \in CallIds :
        path[c] \in {"U", "T"} /\ Done(c) /\ nTransient[c] > 0 => sends[c] > 1

\* C3: a call whose first response has a non-2xx status outside the retryable
\* set ends there: one request sent, no sleep, and a failure that carries the
\* status code and the response body.
C3_TerminalStatusCarriesBody ==
    \A c \in CallIds :
        Done(c) /\ nResp[c] = 1 /\ LastStatusIs(c, IsTerminalStatus) =>
            /\ sends[c] = 1
            /\ sleeps[c] = <<>>
            /\ result[c].kind \in {"error", "thrown"}
            /\ result[c].status = lastResp[c].status
            /\ result[c].body = {lastResp[c].body}

\* a 2xx response whose body holds a string at the path complete() reads
ValidOkResponse(r) ==
    /\ ~r.rejected /\ HasStatus(r) /\ ResponseOk(StatusOf(r))
    /\ r.body.family = "openai" /\ r.body.level = "leaf"

\* C4: when k responses with a retryable status are followed by a 2xx
\* response with a valid body, complete() returns success having sent k + 1
\* requests and slept k times, every sleep of the same retryPauseMs (1000 when
\* the model sets none).
C4_FixedPauseThenSuccess ==
    \A c \in CallIds :
        /\ path[c] = "G" /\ Done(c)
        /\ ValidOkResponse(lastResp[c])
        /\ nTransient[c] = nResp[c] - 1
        => /\ result[c].kind = "success"
           /\ result[c].content = lastResp[c].body.content
           /\ sends[c] = nResp[c]
           /\ Len(sleeps[c]) = nTransient[c]
           /\ nTransient[c] <= retryMax[c]
           /\ \A i \in 1..Len(sleeps[c]) :
                  sleeps[c][i] = Nullish(model.retryPauseMs, 1000)

\* C4 witness: two retryable responses, then a 200 with a valid body: success
\* on the third send after two sleeps
C4_Witness ==
    \E c \in CallIds :
        /\ path[c] = "G" /\ Done(c)
        /\ ValidOkResponse(lastResp[c]) /\ lastResp[c].status = {200}
        /\ nTransient[c] = 2 /\ nResp[c] = 3 /\ sends[c] = 3
        /\ Len(sleeps[c]) = 2
        /\ result[c].kind = "success"

\* C5: once the HTTP call of a call has rejected, the call is over with a
\* thrown error, and it neither sleeps nor sends again: the numbers of sends
\* and of sleeps stay what they were when the rejected request was issued.
C5_RejectionIsTerminal ==
    /\ [](\A c \in CallIds :
            lastResp[c].rejected =>
                /\ Done(c)
                /\ result[c].kind = "thrown"
                /\ sends[c] = nResp[c] + 1
                /\ Len(sleeps[c]) = IF path[c] = "G" THEN nResp[c] ELSE 0)
    /\ [][\A c \in CallIds :
            lastResp'[c].rejected =>
                /\ pc'[c] = "done"
                /\ sends'[c] = sends[c]
                /\ sleeps'[c] = sleeps[c]]_vars

\* C5 witness: the fetch rejects while retries remain
C5_Witness ==
    \E c \in CallIds :
        /\ path[c] = "G" /\ Done(c)
        /\ lastResp[c].rejected
        /\ nResp[c] = 1
        /\ retryCount[c] < retryMax[c]

\* what makes a provider id known to each entry point (an unset
\* prompter.llmProvider stands for openai)
KnownProvider(c) ==
    CASE path[c] = "G" -> OrElse(cfg[c].provider, "openai") \in OrgConfigKeys
      [] path[c] = "U" -> ToLowerCase(cfg[c].provider) \in LLMProvider
      [] path[c] = "T" -> cfg[c].provider \in ProviderConfigKeys

\* C6: a call for a provider id that is not statically known sends no HTTP
\* request and ends with an unsupported-provider error.
C6_UnknownProviderFailsBeforeSend ==
    \A c \in CallIds :
        pc[c] \notin {"unused", "idle"} /\ ~KnownProvider(c) =>
            /\ sends[c] = 0
            /\ Done(c)
            /\ result[c].kind = "thrown"
            /\ result[c].errType = "UnsupportedProvider"

\* completion texts that are not JSON
UnparseableTexts == {"", "not json"}

HasTextField(c) ==
    /\ lastResp[c].body.level = "leaf"
    /\ lastResp[c].body.family =
           (IF path[c] = "U" THEN ExtractFamily(req[c].org) ELSE "openai")

\* the call failed below the translator: no response, a non-2xx status, or a
\* 2xx body without the text field
TransportFailure(c) ==
    \/ lastResp[c].rejected
    \/ LastStatusIs(c, LAMBDA s : ~ResponseOk(s))
    \/ LastStatusIs(c, IsOk) /\ ~HasTextField(c)

\* C8: a failure below the translator reaches the caller as a thrown error,
\* and a returned {success:false} comes from a parse or shape mismatch only.
C8_TransportFailuresAreThrown ==
    \A c \in CallIds :
        Done(c) /\ TransportFailure(c) =>
            IF path[c] = "T" THEN tr[c].kind = "thrown"
            ELSE result[c].kind = "thrown"

\* interface ChatResponse, the shape the translator of llmSchema.ts is
\* created with
ChatResponseRequired ==
    {<<"format", "string">>, <<"content", "string">>, <<"success", "boolean">>}

ChatResponseOptional ==
    {<<"error", "string">>, <<"usage", "object">>, <<"model", "string">>,
     <<"provider", "string">>}

Conforms(data) ==
    /\ data.kind = "object"
    /\ \A f \in ChatResponseRequired :
           \E g \in data.fields : g[1] = f[1] /\ g[2] = f[2]
    /\ \A g \in data.fields :
           <<g[1], g[2]>> \in ChatResponseRequired \cup ChatResponseOptional
    /\ \A g \in data.fields :
           g[1] = "format" => g[3] \in {"plaintext", "markdown"}

\* C9: the data of a successful translate satisfies the declared shape: the
\* required fields with their types, and no field outside the shape.
C9_SuccessDataHasShape ==
    \A c \in CallIds :
        tr[c].kind = "returned" /\ tr[c].success => Conforms(tr[c].data)

\* C10: after a 2xx response whose body lacks the text field the completion
\* has failed, and the content of a successful completion is neither
\* undefined nor the empty string.
C10_NoEmptySuccess ==
    \A c \in CallIds :
        Done(c) /\ LastStatusIs(c, IsOk) =>
            /\ ~HasTextField(c) => result[c].kind \in {"error", "thrown"}
            /\ result[c].kind = "success" => result[c].content \notin {Undefined, ""}

\* C11: every finished call of executeCellPrompt, whether it returned or
\* threw, delivered the metadata of the call (provider, model, duration,
\* temperature, maxTokens) to its caller.
C11_MetadataOnEveryOutcome ==
    \A c \in CallIds :
        path[c] = "G" /\ Done(c) =>
            /\ wrap[c].kind \in {"returned", "thrown"}
            /\ wrap[c].meta # {}

\* everything a call of complete() holds as its own
Locals(c) ==
    <<pc[c], req[c], retryCount[c], retryMax[c], pauseMs[c], sends[c],
      sleeps[c], nResp[c], nTransient[c], lastResp[c], result[c], wrap[c]>>

\* C12: two calls on one model instance that interleave at their awaits are
\* independent: a step of one call leaves everything of the other call as it
\* was, and the sends, the sleeps and the result of a call are those its own
\* responses determine (one more send than retries, the retry budget of the
\* model for itself, the result of its own last response).
C12_ConcurrentCallsIndependent ==
    /\ [](\A c \in CallIds :
            pc[c] \in {"fetch", "sleep", "done"} =>
                /\ sends[c] = retryCount[c] + 1
                /\ Len(sleeps[c]) = retryCount[c] + (IF pc[c] = "sleep" THEN 1 ELSE 0)
                /\ nTransient[c] <= retryMax[c] + 1
                /\ retryMax[c] = Nullish(model.retryMaxAttempts, 3)
                /\ pc[c] = "sleep" => nTransient[c] = nResp[c] /\ nResp[c] = sends[c]
                /\ (Done(c) /\ ~lastResp[c].rejected) =>
                       /\ sends[c] = nResp[c]
                       /\ nTransient[c] >= nResp[c] - 1
                       /\ result[c] = GTerminal(lastResp[c])
                       /\ (nTransient[c] = nResp[c]) => nResp[c] = retryMax[c] + 1)
    /\ [][\A c, d \in CallIds :
            c # d /\ Locals(c)' # Locals(c) => Locals(d)' = Locals(d)]_vars

\* C12 witness: both calls are in flight at once, one in its second sleep,
\* the other waiting for the answer to its second request
C12_Witness ==
    /\ pc["a"] = "sleep" /\ Len(sleeps["a"]) = 2
    /\ pc["b"] = "fetch" /\ retryCount["b"] = 1

\* the transitions of a call: Sending is "fetch", Retrying is "sleep"
Transitions ==
    {<<"idle", "fetch">>, <<"idle", "done">>, <<"fetch", "sleep">>,
     <<"fetch", "done">>, <<"sleep", "fetch">>}

\* C13: every call that is started ends (success or failure), given that each
\* HTTP call and each sleep completes; on the way the call sleeps, and so
\* goes from Retrying back to Sending, at most retryMaxAttempts times, moves
\* only along idle -> Sending -> (Retrying -> Sending)* -> Done, and never
\* leaves Done.
C13_EveryCallTerminates ==
    /\ \A c \in CallIds : (pc[c] = "idle") ~> Done(c)
    /\ [](\A c \in CallIds :
            path[c] = "G" /\ pc[c] \in {"fetch", "sleep", "done"} =>
                /\ Len(sleeps[c]) <= retryMax[c]
                /\ retryCount[c] <= retryMax[c])
    /\ [](\A c \in CallIds :
            Done(c) => IF path[c] = "T" THEN tr[c].kind = "returned"
                       ELSE result[c].kind \in {"success", "error", "thrown"})
    /\ [][\A c \in CallIds :
            pc'[c] # pc[c] => <<pc[c], pc'[c]>> \in Transitions]_vars

\* C13 witness: a call that took the loop retryMaxAttempts times and ended
\* with the completion of its last request
C13_Witness ==
    \E c \in CallIds :
        /\ path[c] = "G" /\ Done(c)
        /\ retryMax[c] = 2 /\ retryCount[c] = 2 /\ Len(sleeps[c]) = 2
        /\ result[c].kind = "success"

\* C14: the temperature and the token limit in the metadata executeCellPrompt
\* returns are the values in the body of the request the call sent, under
\* every setting and for every provider, one with a registered model factory
\* included.
C14_MetadataMatchesBody ==
    \A c \in CallIds :
        path[c] = "G" /\ wrap[c].kind = "returned" =>
            \A m \in wrap[c].meta :
                /\ m.temperature = Get(reqBody[c], "temperature")
                /\ m.maxTokens \in {Get(reqBody[c], "maxTokens"),
                                    Get(reqBody[c], "max_tokens")}

\* the call has built its request
Built(c) == pc[c] \in {"fetch", "sleep", "done"} /\ sends[c] > 0

\* the value the request body holds for a generation parameter, under
\* whichever key the path and the provider of the call put it
Sent(c, keys) ==
    IF \E k \in keys : k \in Keys(reqBody[c])
    THEN Get(reqBody[c], CHOOSE k \in keys : k \in Keys(reqBody[c]))
    ELSE Undef

TemperatureKeys ==
    {"temperature", "parameters.temperature", "generationConfig.temperature"}

MaxTokensKeys ==
    {"max_tokens", "maxTokens", "parameters.max_tokens",
     "generationConfig.maxOutputTokens"}

TopPKeys == {"top_p", "topP", "parameters.top_p", "generationConfig.topP"}

\* C15: in the request of every entry point a generation parameter the
\* caller did not set goes out as its default (temperature 0.7, maxTokens
\* 1000, topP 1.0) and one the caller set goes out as set.
C15_DefaultsExactlyWhenAbsent ==
    \A c \in CallIds :
        Built(c) =>
            /\ Sent(c, TemperatureKeys) = Num(Nullish(cfg[c].temperature, 7))
            /\ Sent(c, MaxTokensKeys) = Num(Nullish(cfg[c].maxTokens, 1000))
            /\ Sent(c, TopPKeys) = Num(Nullish(cfg[c].topP, 10))

\* C16: the body UniversalLLMProvider posts has exactly the keys documented
\* for its provider: model, messages, temperature, max_tokens, top_p for
\* OpenAI, Deepseek, Mistral and Anthropic, with messages the caller's list;
\* model, input.messages, parameters.{temperature, max_tokens, top_p} for
\* Qwen; contents, generationConfig.{temperature, topP, maxOutputTokens} for
\* Gemini.
C16_PayloadHasDocumentedKeys ==
    \A c \in CallIds :
        path[c] = "U" /\ Built(c) =>
            /\ req[c].org \in {"openai", "deepseek", "mistral", "anthropic"} =>
                   /\ Keys(reqBody[c]) =
                          {"model", "messages", "temperature", "max_tokens", "top_p"}
                   /\ Get(reqBody[c], "messages") = List(cfg[c].messages)
            /\ req[c].org = "qwen" =>
                   /\ Keys(reqBody[c]) =
                          {"model", "input.messages", "parameters.temperature",
                           "parameters.max_tokens", "parameters.top_p"}
                   /\ Get(reqBody[c], "input.messages") = List(cfg[c].messages)
            /\ req[c].org = "gemini" =>
                   Keys(reqBody[c]) =
                       {"contents", "generationConfig.temperature",
                        "generationConfig.topP", "generationConfig.maxOutputTokens"}
            /\ req[c].org \in LLMProvider

\* C16 witness: a Qwen request with a conversation of two messages
C16_Witness ==
    \E c \in CallIds :
        /\ path[c] = "U" /\ Built(c)
        /\ req[c].org = "qwen"
        /\ "input.messages" \in Keys(reqBody[c])
        /\ Len(cfg[c].messages) = 2

\* C17: the body of the request executeCellPrompt sends through the general
\* model has the openai-chat keys: model, messages, temperature, and the
\* token limit under max_tokens.
C17_CellBodyIsOpenAIChat ==
    \A c \in CallIds :
        path[c] = "G" /\ Built(c) =>
            /\ {"model", "messages", "temperature", "max_tokens"} \subseteq Keys(reqBody[c])
            /\ Get(reqBody[c], "max_tokens") = Get(defaultParams(cfg[c]), "maxTokens")

\* the message an element of contents stands for, model read back as assistant
FromGemini(entry) ==
    Msg(IF entry.role = "model" THEN "assistant" ELSE entry.role,
        entry.parts[1].text)

\* C18: the contents of a Gemini payload has the length and the order of the
\* caller's messages; the i-th entry has one part whose text is the i-th
\* message's content, and the i-th message's role with assistant turned into
\* model; reading model back as assistant gives the caller's list again.
C18_GeminiRemapKeepsOrderAndText ==
    \A c \in CallIds :
        path[c] = "U" /\ Built(c) /\ req[c].org = "gemini" =>
            LET contents == Get(reqBody[c], "contents").m
                messages == cfg[c].messages
            IN  /\ Get(reqBody[c], "contents").t = "list"
                /\ Len(contents) = Len(messages)
                /\ \A i \in 1..Len(messages) :
                       /\ Len(contents[i].parts) = 1
                       /\ contents[i].parts[1].text = messages[i].content
                       /\ contents[i].role =
                              (IF messages[i].role = "assistant" THEN "model"
                               ELSE messages[i].role)
                /\ [i \in 1..Len(contents) |-> FromGemini(contents[i])] = messages

\* C18 witness: a Gemini request for an assistant message followed by a user
\* message with another text
C18_Witness ==
    \E c \in CallIds :
        /\ path[c] = "U" /\ Built(c) /\ req[c].org = "gemini"
        /\ cfg[c].messages = <<Msg("assistant", "ok"), Msg("user", "hello")>>
        /\ Len(Get(reqBody[c], "contents").m) = 2

\* the names of the headers of the call's request
HeaderNames(c) == {h[1] : h \in reqHeaders[c]}

\* C19: UniversalLLMProvider attaches the API key in the provider's style:
\* OpenAI, Deepseek, Mistral and Qwen send Authorization: Bearer <key> and
\* nothing else of the key; Anthropic sends the key itself in x-api-key
\* together with its version header; Gemini sends no auth header and the key
\* as the query parameter key; the URL of every other provider is the
\* endpoint with nothing appended.
C19_AuthStylePerProvider ==
    \A c \in CallIds :
        path[c] = "U" /\ Built(c) =>
            /\ req[c].org \in {"openai", "deepseek", "mistral", "qwen"} =>
                   /\ <<"Authorization", <<"Bearer ", cfg[c].apiKey>>>> \in reqHeaders[c]
                   /\ "x-api-key" \notin HeaderNames(c)
            /\ req[c].org = "anthropic" =>
                   /\ <<"x-api-key", <<cfg[c].apiKey>>>> \in reqHeaders[c]
                   /\ "anthropic-version" \in HeaderNames(c)
                   /\ "Authorization" \notin HeaderNames(c)
            /\ req[c].org = "gemini" =>
                   /\ HeaderNames(c) \cap {"Authorization", "x-api-key"} = {}
                   /\ req[c].query = {<<"key", cfg[c].apiKey>>}
            /\ req[c].org # "gemini" =>
                   /\ req[c].query = {}
                   /\ req[c].url = getApiEndpoint(req[c].org, cfg[c].endpoint)

\* the fields of LLMResponse.usage
ResultUsageNames == {"promptTokens", "completionTokens", "totalTokens"}

\* C20: a field of the usage of a completion result holds a number only if
\* the provider's payload had the field it is read from, and then the same
\* number; a count the payload omits is absent from the result, and so is
\* never 0.
C20_UsageOnlyFromPayload ==
    \A c \in CallIds :
        path[c] = "U" /\ Done(c) /\ result[c].kind = "success" =>
            /\ \A u \in result[c].usage :
                   /\ u[1] \in ResultUsageNames
                   /\ lastResp[c].usage.has
                   /\ \E f \in UsageFields(req[c].org) :
                          f[1] = u[1] /\ <<f[2], u[2]>> \in lastResp[c].usage.fields
            /\ \A u, v \in result[c].usage : u[1] = v[1] => u = v
            /\ \A f \in UsageFields(req[c].org) :
                   (\A p \in lastResp[c].usage.fields : p[1] # f[2])
                   => \A u \in result[c].usage : u[1] # f[1]
            /\ ~lastResp[c].usage.has => result[c].usage = {}

\* C20 witness: an OpenAI answer that reports prompt_tokens 0 and no
\* total_tokens: the result has promptTokens 0 and no totalTokens
C20_Witness ==
    \E c \in CallIds :
        /\ path[c] = "U" /\ Done(c) /\ result[c].kind = "success"
        /\ req[c].org = "openai"
        /\ lastResp[c].usage.fields = {<<"prompt_tokens", 0>>, <<"completion_tokens", 5>>}
        /\ result[c].usage = {<<"promptTokens", 0>>, <<"completionTokens", 5>>}

-----------------------------------------------------------------------------
(* The notebook: cells, executeCell, run-all, the controller               *)
(*                                                                         *)
(* A NotebookCell is an object: a command keeps the object it was handed.  *)
(* replaceCells puts a new object at the index, and the old object's index *)
(* is -1 from then on.  objs holds every object by handle, notebook the    *)
(* handles of the cells the notebook has now.                              *)

MaxCells == 2

\* what a cell document can hold
CellTexts == {"", "p1", "p1 ", "p2"}

\* String.prototype.trim on those
Trim(t) == IF t = "p1 " THEN "p1" ELSE t

\* crypto.createHash('md5').update(t).digest('hex')
Md5(t) == "md5(" \o t \o ")"

CellKinds == {"code", "markup"}

HistoryItem(t) == [content |-> t, md5 |-> Md5(t)]

\* NotebookCell.index
CellIndex(h) ==
    IF \E i \in 1..Len(notebook) : notebook[i] = h
    THEN (CHOOSE i \in 1..Len(notebook) : notebook[i] = h) - 1
    ELSE -1

Ev(t, k, e) == [task |-> t, k |-> k, ev |-> e]

\* the for loop of run-all or of executeHandler from its k-th cell, up to
\* the next await that waits for something: executeCell's synchronous part
\* (lines 122-133) returns at once for a markup or empty cell
RECURSIVE RunLoop(_, _, _, _)
RunLoop(t, T, k, evs) ==
    IF k > Len(T.cells)
    THEN [task |-> [T EXCEPT !.pc = "done", !.k = k], events |-> evs]
    ELSE LET h == T.cells[k]
             ctl == T.type = "controller"
             e1 == IF ctl THEN Append(evs, Ev(t, k, "start")) ELSE evs
             code == Trim(objs[h].text)
         IN  IF objs[h].kind # "code"
             THEN RunLoop(t, T, k + 1,
                          IF ctl THEN Append(e1, Ev(t, k, "end(true)")) ELSE e1)
             ELSE IF code = ""
             THEN RunLoop(t, T, k + 1,
                          e1 \o <<Ev(t, k, "call"), Ev(t, k, "return")>>
                             \o (IF ctl THEN <<Ev(t, k, "end(true)")>> ELSE <<>>))
             ELSE [task |-> [T EXCEPT !.pc = "exec", !.k = k, !.code = code],
                   events |-> Append(e1, Ev(t, k, "call"))]

\* Settle with an executeHandler that lets the rejection through
Settle_AbortOnThrow(t, T, ok, evs) ==
    LET e1 == Append(evs, Ev(t, T.k, IF ok THEN "return" ELSE "throw"))
    IN  IF ~ok THEN [task |-> [T EXCEPT !.pc = "aborted"], events |-> e1]
        ELSE RunLoop(t, T, T.k + 1,
                     IF T.type = "runAll" THEN e1
                     ELSE Append(e1, Ev(t, T.k, "end(true)")))

\* executeCell resolved (ok) or rejected: run-all has no catch and its
\* command ends there, executeHandler ends the execution and goes on
Settle(t, T, ok, evs) ==
    LET e1 == Append(evs, Ev(t, T.k, IF ok THEN "return" ELSE "throw"))
    IN  IF T.type = "runAll"
        THEN IF ok THEN RunLoop(t, T, T.k + 1, e1)
             ELSE [task |-> [T EXCEPT !.pc = "aborted"], events |-> e1]
        ELSE RunLoop(t, T, T.k + 1,
                     Append(e1, Ev(t, T.k, IF ok THEN "end(true)" ELSE "end(false)")))

\* the notebook an editor shows
OpenNotebook(cs) ==
    /\ notebook = [i \in 1..Len(cs) |-> i]
    /\ objs = cs
    /\ task = [t \in TaskIds |-> NoTask]
    /\ events = <<>>
    /\ panel = NoPanel
    /\ writes = [i \in 1..Len(cs) |-> 0]
    /\ lastOp = NoOp

\* the command prompter.notebook.runAllCells
registerRunAllCellsCommand(t) ==
    /\ task[t].type = "none"
    /\ notebook # <<>>
    /\ LET r == RunLoop(t, [NoTask EXCEPT !.type = "runAll", !.cells = notebook],
                        1, events)
       IN  task' = [task EXCEPT ![t] = r.task] /\ events' = r.events
    /\ UNCHANGED <<notebook, objs, panel, writes, lastOp>>
    /\ UNCHANGED exceptNb

\* the controller is handed the cells to execute
executeHandler(t, cells) ==
    /\ task[t].type = "none"
    /\ LET r == RunLoop(t, [NoTask EXCEPT !.type = "controller", !.cells = cells],
                        1, events)
       IN  task' = [task EXCEPT ![t] = r.task] /\ events' = r.events
    /\ UNCHANGED <<notebook, objs, panel, writes, lastOp>>
    /\ UNCHANGED exceptNb

Md5s(history) == {history[j].md5 : j \in 1..Len(history)}

RECURSIVE SumLen(_, _)
SumLen(hs, n) == IF n = 0 THEN 0 ELSE Len(objs[hs[n]].history) + SumLen(hs, n - 1)

\* the history entries of the notebook's cells
TotalHistory == SumLen(notebook, Len(notebook))

\* the awaited executeCellPrompt or runCode settles, then updateCellOutput*
\* calls applyCell (in the catch block when it rejected), up to
\* await applyEdit
applyCell(t, ok) ==
    /\ task[t].pc = "exec"
    /\ LET T == task[t]
           h == T.cells[T.k]
           history == objs[h].history
           md5 == Md5(T.code)
           pushed == IF md5 \in Md5s(history) THEN history
                     ELSE Append(history, HistoryItem(T.code))
       IN  IF CellIndex(h) < 0
           THEN /\ LET r == Settle(t, T, ok, events)
                   IN  task' = [task EXCEPT ![t] = r.task] /\ events' = r.events
                /\ UNCHANGED <<objs, lastOp>>
           ELSE /\ objs' = [objs EXCEPT ![h].history = pushed]
                /\ task' = [task EXCEPT ![t] =
                       [T EXCEPT !.pc = "apply", !.failed = ~ok,
                                 !.edit = [index |-> CellIndex(h),
                                           kind |-> objs[h].kind,
                                           lang |-> objs[h].lang,
                                           text |-> objs[h].text,
                                           count |-> objs[h].count + 1,
                                           history |-> pushed]]]
                /\ lastOp' = [kind |-> "exec", present |-> md5 \in Md5s(history),
                              before |-> TotalHistory,
                              after |-> TotalHistory + Len(pushed) - Len(history)]
                /\ UNCHANGED events
    /\ UNCHANGED <<notebook, panel, writes>>
    /\ UNCHANGED exceptNb

\* the replaceCells edit of applyCell is applied: a new cell object at the
\* index; executeCell then returns, or rethrows what it caught
EditApplied(t) ==
    /\ task[t].pc = "apply"
    /\ LET T == task[t]
           e == T.edit
           r == Settle(t, [T EXCEPT !.edit = NoEdit, !.failed = FALSE],
                       ~T.failed, events)
       IN  /\ objs' = Append(objs, [kind |-> e.kind, lang |-> e.lang,
                                    text |-> e.text, count |-> e.count,
                                    history |-> e.history])
           /\ notebook' = [notebook EXCEPT ![e.index + 1] = Len(objs) + 1]
           /\ writes' = [writes EXCEPT ![e.index + 1] = @ + 1]
           /\ task' = [task EXCEPT ![t] = r.task]
           /\ events' = r.events
    /\ UNCHANGED <<panel, lastOp>>
    /\ UNCHANGED exceptNb

-----------------------------------------------------------------------------
(* The prompt history panel (commands/promptHistoryCommands.ts) *)

\* the command prompter.cell.showPromptHistory on the cell at index i - 1:
\* the panel's message handler keeps that cell object
showHistoryPanel(i) ==
    /\ panel.pc \in {"closed", "open"}
    /\ panel' = [NoPanel EXCEPT !.cell = notebook[i], !.pc = "open",
                                !.shown = objs[notebook[i]].history]
    /\ UNCHANGED <<notebook, objs, task, events, writes, lastOp>>
    /\ UNCHANGED exceptNb

\* the user resets the cell to the j-th prompt the panel shows:
\* saveCurrentContentToHistory up to its await, or to its return or throw;
\* NotebookEdit.updateCellMetadata rejects the index -1 of a replaced cell
resetPromptToCell(j) ==
    /\ panel.pc = "open"
    /\ j \in 1..Len(panel.shown)
    /\ LET c == panel.cell
           currentContent == objs[c].text
           md5Hash == Md5(currentContent)
           history == objs[c].history
           exists == \E x \in 1..Len(history) :
                         \/ history[x].md5 = md5Hash
                         \/ history[x].content = currentContent
           op == [kind |-> "save", present |-> exists,
                  before |-> TotalHistory, after |-> TotalHistory]
       IN  IF exists
           THEN /\ panel' = [panel EXCEPT !.pc = "inserting",
                                          !.prompt = panel.shown[j].content]
                /\ lastOp' = op
           ELSE IF CellIndex(c) < 0
           THEN /\ panel' = panel
                /\ lastOp' = op
           ELSE /\ panel' = [panel EXCEPT
                       !.pc = "saving", !.prompt = panel.shown[j].content,
                       !.edit = [NoEdit EXCEPT
                                    !.index = CellIndex(c),
                                    !.count = objs[c].count,
                                    !.history = Append(history,
                                                       HistoryItem(currentContent))]]
                /\ lastOp' = [op EXCEPT !.kind = "saving"]
    /\ UNCHANGED <<notebook, objs, task, events, writes>>
    /\ UNCHANGED exceptNb

\* the updateCellMetadata edit is applied to the cell at the index, then
\* insertPromptToCell up to its await
MetadataApplied ==
    /\ panel.pc = "saving"
    /\ LET h == notebook[panel.edit.index + 1]
       IN  /\ objs' = [objs EXCEPT ![h].history = panel.edit.history,
                                   ![h].count = panel.edit.count]
           /\ lastOp' = [lastOp EXCEPT
                  !.kind = "save",
                  !.after = TotalHistory - Len(objs[h].history)
                                + Len(panel.edit.history)]
    /\ panel' = [panel EXCEPT !.pc = "inserting", !.edit = NoEdit]
    /\ UNCHANGED <<notebook, task, events, writes>>
    /\ UNCHANGED exceptNb

\* the text edit of insertPromptToCell is applied if the cell's document is
\* still open, then refreshHistoryPanel
insertPromptToCell ==
    /\ panel.pc = "inserting"
    /\ LET c == panel.cell
       IN  /\ objs' = IF CellIndex(c) >= 0
                      THEN [objs EXCEPT ![c].text = panel.prompt]
                      ELSE objs
           /\ panel' = [panel EXCEPT !.pc = "open", !.prompt = "",
                                     !.shown = objs[c].history]
    /\ UNCHANGED <<notebook, task, events, writes, lastOp>>
    /\ UNCHANGED exceptNb

\* the user types in the cell at index i - 1
EditText(i, x) ==
    /\ objs[notebook[i]].text # x
    /\ objs' = [objs EXCEPT ![notebook[i]].text = x]
    /\ UNCHANGED <<notebook, task, events, panel, writes, lastOp>>
    /\ UNCHANGED exceptNb

-----------------------------------------------------------------------------
(* Specification: executions and resets of a prompt cell, one after the    *)
(* other                                                                   *)

HistoryCells ==
    [kind : {"code"}, lang : {"prompt"}, text : CellTexts \ {""}, count : {0},
     history : {<<>>, <<HistoryItem("p2")>>}]

\* no command is between two of its awaits
Quiet ==
    /\ panel.pc \in {"closed", "open"}
    /\ \A t \in TaskIds : task[t].pc \in {"idle", "done", "aborted"}

InitHistory ==
    /\ IdleExceptNb
    /\ \E c \in HistoryCells : OpenNotebook(<<c>>)

NextHistory ==
    \/ Quiet /\ \E t \in TaskIds : executeHandler(t, notebook)
    \/ \E t \in TaskIds, ok \in BOOLEAN : applyCell(t, ok)
    \/ \E t \in TaskIds : EditApplied(t)
    \/ Quiet /\ showHistoryPanel(1)
    \/ Quiet /\ \E j \in 1..Len(panel.shown) : resetPromptToCell(j)
    \/ MetadataApplied
    \/ insertPromptToCell
    \/ Quiet /\ \E x \in CellTexts : EditText(1, x)

SpecHistory == InitHistory /\ [][NextHistory]_vars

-----------------------------------------------------------------------------
(* Specification: run-all on a notebook of code and markup cells *)

RunAllCells ==
    [kind : CellKinds, lang : {"prompt", "python"}, text : {"", "p1"},
     count : {0}, history : {<<>>}]

RunAllNotebooks ==
    UNION {[1..n -> RunAllCells] : n \in 1..MaxCells}

InitRunAll ==
    /\ IdleExceptNb
    /\ \E cs \in RunAllNotebooks : OpenNotebook(cs)

NextRunAll ==
    \/ registerRunAllCellsCommand(1)
    \/ \E ok \in BOOLEAN : applyCell(1, ok)
    \/ EditApplied(1)

SpecRunAll == InitRunAll /\ [][NextRunAll]_vars

-----------------------------------------------------------------------------
(* Specification: two commands run the cells of one notebook, overlapping  *)
(* at their awaits                                                         *)

OverlapCells ==
    [kind : {"code"}, lang : {"prompt"}, text : {"p1"}, count : {0, 1},
     history : {<<>>}]

InitOverlap ==
    /\ IdleExceptNb
    /\ \E cs \in UNION {[1..n -> OverlapCells] : n \in 1..MaxCells} : OpenNotebook(cs)

NextOverlap ==
    \E t \in TaskIds :
        \/ registerRunAllCellsCommand(t)
        \/ \E i \in 1..Len(notebook) : executeHandler(t, <<notebook[i]>>)
        \/ \E ok \in BOOLEAN : applyCell(t, ok)
        \/ EditApplied(t)

SpecOverlap == InitOverlap /\ [][NextOverlap]_vars

-----------------------------------------------------------------------------
(* Specification: the controller executes a batch of cells *)

InitController ==
    /\ IdleExceptNb
    /\ \E cs \in RunAllNotebooks : OpenNotebook(cs)

NextController ==
    \/ executeHandler(1, notebook)
    \/ \E i \in 1..Len(notebook) : executeHandler(1, <<notebook[i]>>)
    \/ \E ok \in BOOLEAN : applyCell(1, ok)
    \/ EditApplied(1)

SpecController == InitController /\ [][NextController]_vars

-----------------------------------------------------------------------------
(* Claims about the notebook *)

\* the events of task t that are executeCell calls
Calls(t) == {j \in 1..Len(events) : events[j].task = t /\ events[j].ev = "call"}

\* C22: run-all executes every Code cell of the notebook in ascending index
\* order, one at a time (cell i+1's execution does not start before cell
\* i's has finished), and skips markup cells
C22_RunAllExecutesEveryCodeCellInOrder ==
    LET T == task[1]
        Code(k) == objs[T.cells[k]].kind = "code"
    IN  T.type = "runAll" =>
            /\ \A j \in Calls(1) : Code(events[j].k)
            /\ \A i, j \in Calls(1) :
                   i < j => /\ events[i].k < events[j].k
                            /\ \E m \in (i + 1)..(j - 1) :
                                   /\ events[m].k = events[i].k
                                   /\ events[m].ev \in {"return", "throw"}
            /\ T.pc \in {"done", "aborted"} =>
                   \A k \in 1..Len(T.cells) :
                       Code(k) => \E j \in Calls(1) : events[j].k = k

-----------------------------------------------------------------------------
(* utils/stringFormatter.ts                                                *)
(*                                                                         *)
(* A template is a sequence of tokens: the two braces, a space, a digit,   *)
(* and words that hold neither brace.                                      *)

MaxTemplateLen == 4

FmtTokens == {"{", "}", " ", "1", "name", "constructor", "st"}

Digits == {"0", "1", "2"}

DigitValue(d) == CASE d = "0" -> 0 [] d = "1" -> 1 [] d = "2" -> 2

RECURSIVE Concat(_)
Concat(toks) == IF toks = <<>> THEN "" ELSE Head(toks) \o Concat(Tail(toks))

\* a function value
Fn(name) == [t |-> "fn", n |-> {}, s |-> name, m |-> <<>>]

\* String(value)
JSString(v) ==
    CASE v.t = "str" -> v.s
      [] v.t = "num" -> ToString(CHOOSE x \in v.n : TRUE)
      [] v.t = "fn" -> "function " \o v.s \o "() { [native code] }"
      [] OTHER -> "undefined"

\* what every plain object and array inherits from Object.prototype
ObjectPrototype == {"constructor", "toString", "valueOf", "hasOwnProperty"}

FmtObject(props) == [isArray |-> FALSE, props |-> props, items |-> <<>>]

FmtArray(items) == [isArray |-> TRUE, props |-> <<>>, items |-> items]

\* values[key] for a string key of an object
PropertyGet(values, key) ==
    IF key \in DOMAIN values.props THEN values.props[key]
    ELSE IF key \in ObjectPrototype
    THEN Fn(IF key = "constructor" THEN "Object" ELSE key)
    ELSE Undef

\* values[index] for a number index of an array
ElementGet(values, index) ==
    IF index + 1 \in 1..Len(values.items) THEN values.items[index + 1] ELSE Undef

\* the matches of /\{([^}]+)\}/g from token i on, with the text between them
RECURSIVE RegexMatches(_, _)
RegexMatches(tpl, i) ==
    IF i > Len(tpl) THEN <<>>
    ELSE LET closes == {j \in (i + 1)..Len(tpl) : tpl[j] = "}"}
             j == CHOOSE c \in closes : \A m \in closes : c <= m
         IN  IF tpl[i] = "{" /\ closes # {} /\ j > i + 1
             THEN <<[match |-> SubSeq(tpl, i, j), key |-> SubSeq(tpl, i + 1, j - 1)]>>
                  \o RegexMatches(tpl, j + 1)
             ELSE <<[match |-> <<tpl[i]>>, key |-> <<>>]>> \o RegexMatches(tpl, i + 1)

\* key.trim()
RECURSIVE TrimKey(_)
TrimKey(key) ==
    IF key = <<>> THEN key
    ELSE IF Head(key) = " " THEN TrimKey(Tail(key))
    ELSE IF key[Len(key)] = " " THEN TrimKey(SubSeq(key, 1, Len(key) - 1))
    ELSE key

RECURSIVE LeadingNumber(_, _, _)
LeadingNumber(key, i, acc) ==
    IF i > Len(key) \/ key[i] \notin Digits THEN acc
    ELSE LeadingNumber(key, i + 1, acc * 10 + DigitValue(key[i]))

\* parseInt(key, 10) of a trimmed key: the empty set is NaN
ParseInt(key) ==
    IF key = <<>> \/ key[1] \notin Digits THEN {} ELSE {LeadingNumber(key, 1, 0)}

\* String.replace with a callback: every match gives way to what the
\* callback returns, the rest is copied
RECURSIVE Replace(_, _, _)
Replace(segs, values, advanced) ==
    IF segs = <<>> THEN ""
    ELSE LET seg == Head(segs)
             key == IF advanced THEN TrimKey(seg.key) ELSE seg.key
             index == ParseInt(key)
             value == IF advanced /\ values.isArray
                      THEN IF index # {}
                           THEN ElementGet(values, CHOOSE x \in index : TRUE)
                           ELSE Undef
                      ELSE PropertyGet(values, Concat(key))
         IN  (IF seg.key = <<>> THEN seg.match[1]
              ELSE IF value # Undef THEN JSString(value)
              ELSE Concat(seg.match))
             \o Replace(Tail(segs), values, advanced)

formatString(template, values) ==
    Replace(RegexMatches(template, 1), values, FALSE)

formatStringAdvanced(template, values) ==
    Replace(RegexMatches(template, 1), values, TRUE)

-----------------------------------------------------------------------------
(* Specification: one call of each formatter on a template and values *)

FmtTemplates == UNION {[1..n -> FmtTokens] : n \in 0..MaxTemplateLen}

FmtObjects ==
    {FmtObject(<<>>),
     FmtObject([k \in {"name"} |-> Str("John")]),
     FmtObject([k \in {"name"} |-> Undef]),
     FmtObject([k \in {"1"} |-> Str("Active")])}

FmtArrays ==
    {FmtArray(<<>>), FmtArray(<<Str("First")>>), FmtArray(<<Str("First"), Num(25)>>)}

InitFormat ==
    /\ IdleExceptFmt
    /\ fmtIn \in [template : FmtTemplates, values : FmtObjects \cup FmtArrays]
    /\ fmtOut = NoFmtOut

FormatString ==
    /\ fmtOut.basic = "<undefined>"
    /\ ~fmtIn.values.isArray
    /\ fmtOut' = [fmtOut EXCEPT !.basic = formatString(fmtIn.template, fmtIn.values)]
    /\ UNCHANGED fmtIn
    /\ UNCHANGED exceptFmt

FormatStringAdvanced ==
    /\ fmtOut.advanced = "<undefined>"
    /\ fmtOut' = [fmtOut EXCEPT !.advanced =
                      formatStringAdvanced(fmtIn.template, fmtIn.values)]
    /\ UNCHANGED fmtIn
    /\ UNCHANGED exceptFmt

NextFormat == FormatString \/ FormatStringAdvanced

SpecFormat == InitFormat /\ [][NextFormat]_vars

\* the placeholder's key, read as the caller wrote it, names a value the
\* caller gave: an own key of the object, or an index of the array
GivenValue(values, key) ==
    IF values.isArray
    THEN IF key # <<>> /\ \A j \in 1..Len(key) : key[j] \in Digits
         THEN ElementGet(values, LeadingNumber(key, 1, 0))
         ELSE Undef
    ELSE IF Concat(key) \in DOMAIN values.props THEN values.props[Concat(key)]
    ELSE Undef

RECURSIVE Documented(_, _, _)
Documented(segs, values, advanced) ==
    IF segs = <<>> THEN ""
    ELSE LET seg == Head(segs)
             value == GivenValue(values, IF advanced THEN TrimKey(seg.key) ELSE seg.key)
         IN  (IF seg.key # <<>> /\ value # Undef THEN JSString(value)
              ELSE Concat(seg.match))
             \o Documented(Tail(segs), values, advanced)

\* C23: formatString and formatStringAdvanced replace every placeholder
\* whose key (or array index) has a defined value by that value, leave every
\* placeholder without a value exactly as written, and leave the text
\* outside placeholders unchanged
C23_PlaceholdersReplacedOrKept ==
    LET segs == RegexMatches(fmtIn.template, 1)
    IN  /\ fmtOut.basic # "<undefined>" =>
               fmtOut.basic = Documented(segs, fmtIn.values, FALSE)
        /\ fmtOut.advanced # "<undefined>" =>
               fmtOut.advanced = Documented(segs, fmtIn.values, TRUE)

\* C24: after any runs of executeCell on a cell, overlapping or not, the
\* cell's execution_count has grown by the number of runs that wrote a
\* result: no increment is lost
C24_ExecutionCountCountsWrites ==
    \A i \in 1..Len(notebook) :
        objs[notebook[i]].count = objs[i].count + writes[i]

\* C25: a cell's prompt history never holds two entries with the same md5;
\* executing or saving content that is already in the history adds no
\* entry, and new content adds exactly one
C25_HistoryHasNoDuplicateMd5 ==
    /\ \A i \in 1..Len(notebook) :
           LET history == objs[notebook[i]].history
           IN  \A x, y \in 1..Len(history) :
                   history[x].md5 = history[y].md5 => x = y
    /\ lastOp.kind \in {"exec", "save"} =>
           lastOp.after = lastOp.before + (IF lastOp.present THEN 0 ELSE 1)

-----------------------------------------------------------------------------
(* notebookProvider.ts: the .ppnb serializer *)

JsNull == [t |-> "null", n |-> {}, s |-> "", m |-> <<>>]

\* a value that is neither undefined, null, 0 nor ''
Truthy(v) ==
    \/ v.t = "num" /\ v.n # {0}
    \/ v.t = "str" /\ v.s # ""

\* content.split('\n')
RECURSIVE Split(_)
Split(content) ==
    LET breaks == {i \in 1..Len(content) : content[i] = "\n"}
        i == CHOOSE b \in breaks : \A c \in breaks : b <= c
    IN  IF breaks = {} THEN <<content>>
        ELSE <<SubSeq(content, 1, i - 1)>> \o Split(SubSeq(content, i + 1, Len(content)))

stringToSource(content) ==
    LET lines == Split(content)
    IN  [i \in 1..Len(lines) |->
            IF i < Len(lines) THEN Append(lines[i], "\n") ELSE lines[i]]

\* source.join('')
RECURSIVE sourceToString(_)
sourceToString(source) ==
    IF source = <<>> THEN <<>> ELSE Head(source) \o sourceToString(Tail(source))

\* what serializeNotebook writes for a cell; id is what generateCellId
\* would return.  JSON.stringify leaves out the undefined fields.
PPNBCell(cell, id) ==
    LET cellType == IF cell.languageId = "prompt" THEN "code"
                    ELSE IF cell.languageId = "markdown" THEN "markdown"
                    ELSE "code"
    IN  [cell_type |-> cellType,
         id |-> IF Truthy(cell.metadata.id) THEN cell.metadata.id ELSE Str(id),
         metadata |-> [cell.metadata EXCEPT !.id = Undef],
         source |-> stringToSource(cell.value),
         language |-> IF cellType = "code" THEN Str(cell.languageId) ELSE Undef,
         execution_count |-> Undef]

\* what deserializeNotebook makes of a cell of the file; the file's
\* metadata.language_info.name is "multi"
NotebookCellData(cell) ==
    LET language == IF cell.cell_type = "markdown" THEN "markdown"
                    ELSE IF cell.cell_type = "prompt" THEN "prompt"
                    ELSE IF Truthy(cell.language) THEN cell.language.s
                    ELSE "multi"
        metadata == IF cell.metadata.id # Undef THEN cell.metadata
                    ELSE [cell.metadata EXCEPT !.id = cell.id]
    IN  [kind |-> IF cell.cell_type = "markdown" THEN "markup" ELSE "code",
         languageId |-> language,
         value |-> sourceToString(cell.source),
         metadata |->
             IF cell.cell_type = "code" /\ cell.language = Str("prompt")
             THEN [metadata EXCEPT !.execution_count =
                       IF Truthy(cell.execution_count) THEN cell.execution_count
                       ELSE JsNull]
             ELSE metadata]

\* crypto.randomBytes(4).toString('hex')
GeneratedIds == {"1f2e3d4c", "a0b1c2d3"}

serializeNotebook ==
    /\ ~serFile.done
    /\ \E ids \in [1..Len(serIn) -> GeneratedIds] :
           serFile' = [done |-> TRUE,
                       cells |-> [i \in 1..Len(serIn) |-> PPNBCell(serIn[i], ids[i])]]
    /\ UNCHANGED <<serIn, serOut>>
    /\ UNCHANGED exceptSer

deserializeNotebook ==
    /\ serFile.done
    /\ ~serOut.done
    /\ serOut' = [done |-> TRUE,
                  cells |-> [i \in 1..Len(serFile.cells) |->
                                NotebookCellData(serFile.cells[i])]]
    /\ UNCHANGED <<serIn, serFile>>
    /\ UNCHANGED exceptSer

-----------------------------------------------------------------------------
(* Specification: a notebook is saved and opened again *)

SerTexts == UNION {[1..n -> {"a", "\n"}] : n \in 0..2}

\* the cells an editor holds: new ones without id or execution_count,
\* executed ones as applyCell leaves them
SerCells ==
    [kind : {"code"}, languageId : {"prompt", "python"}, value : SerTexts,
     metadata : [id : {Undef, Str("c1")},
                 execution_count : {Undef, Num(2)},
                 history : {<<>>, <<HistoryItem("p1")>>}]]
    \cup
    [kind : {"markup"}, languageId : {"markdown"}, value : SerTexts,
     metadata : [id : {Undef, Str("c1")}, execution_count : {Undef},
                 history : {<<>>}]]

InitSerialize ==
    /\ IdleExceptSer
    /\ serIn \in UNION {[1..n -> SerCells] : n \in 1..MaxCells}
    /\ serFile = NoFile
    /\ serOut = NoFile

NextSerialize == serializeNotebook \/ deserializeNotebook

SpecSerialize == InitSerialize /\ [][NextSerialize]_vars

\* C26: serializing a notebook and deserializing the result restores every
\* cell's kind, language, source text, id and metadata, a prompt cell's
\* execution_count and history included (a cell that had no id may get one,
\* and a missing execution_count may come back as null)
C26_SerializeRoundTrip ==
    serOut.done =>
        /\ Len(serOut.cells) = Len(serIn)
        /\ \A i \in 1..Len(serIn) :
               /\ serOut.cells[i].kind = serIn[i].kind
               /\ serOut.cells[i].languageId = serIn[i].languageId
               /\ serOut.cells[i].value = serIn[i].value
               /\ serIn[i].metadata.id # Undef =>
                      serOut.cells[i].metadata.id = serIn[i].metadata.id
               /\ \/ serOut.cells[i].metadata.execution_count
                          = serIn[i].metadata.execution_count
                  \/ /\ serIn[i].metadata.execution_count = Undef
                     /\ serOut.cells[i].metadata.execution_count = JsNull
               /\ serOut.cells[i].metadata.history = serIn[i].metadata.history

-----------------------------------------------------------------------------
(* extension.ts: debounced auto-save *)

AUTO_SAVE_DELAY == 1500

\* the time between two instants of the model, in ms
TickMs == AUTO_SAVE_DELAY \div 3

MaxTicks == 6

MaxChanges == 3

\* the notebooks that can change
NotebookDocs ==
    {[uri |-> "file:///a.ppnb", scheme |-> "file", notebookType |-> "prompter-notebook"],
     [uri |-> "file:///b.ppnb", scheme |-> "file", notebookType |-> "prompter-notebook"],
     [uri |-> "untitled:Untitled-1.ppnb", scheme |-> "untitled",
      notebookType |-> "prompter-notebook"],
     [uri |-> "file:///c.ipynb", scheme |-> "file", notebookType |-> "jupyter-notebook"]}

\* scheduleNotebookSave as written but for the clearTimeout
scheduleNotebookSave_NoClear(doc) ==
    /\ Len(changeLog) < MaxChanges
    /\ changeLog' = Append(changeLog, [uri |-> doc.uri, at |-> now])
    /\ IF doc.notebookType # "prompter-notebook" \/ doc.scheme # "file"
       THEN UNCHANGED <<timers, pendingSaves>>
       ELSE LET key == doc.uri
                handle == Len(changeLog) + 1
            IN  /\ timers' = timers \cup {[handle |-> handle, key |-> key,
                                           due |-> now + AUTO_SAVE_DELAY]}
                /\ pendingSaves' = {p \in pendingSaves : p[1] # key}
                                       \cup {<<key, handle>>}
    /\ UNCHANGED <<now, saveLog>>
    /\ UNCHANGED exceptSave

\* a notebook changes: the onDidChangeNotebookDocument listener and
\* scheduleNotebookSave
scheduleNotebookSave(doc) ==
    /\ Len(changeLog) < MaxChanges
    /\ changeLog' = Append(changeLog, [uri |-> doc.uri, at |-> now])
    /\ IF doc.notebookType # "prompter-notebook" \/ doc.scheme # "file"
       THEN UNCHANGED <<timers, pendingSaves>>
       ELSE LET key == doc.uri
                existing == {p[2] : p \in {q \in pendingSaves : q[1] = key}}
                handle == Len(changeLog) + 1
            IN  /\ timers' = {t \in timers : t.handle \notin existing}
                                 \cup {[handle |-> handle, key |-> key,
                                        due |-> now + AUTO_SAVE_DELAY]}
                /\ pendingSaves' = {p \in pendingSaves : p[1] # key}
                                       \cup {<<key, handle>>}
    /\ UNCHANGED <<now, saveLog>>
    /\ UNCHANGED exceptSave

\* when notebook uri last changed; -1 if it never did
LastChange(uri) ==
    LET at == {changeLog[j].at : j \in {x \in 1..Len(changeLog) : changeLog[x].uri = uri}}
    IN  IF at = {} THEN -1 ELSE CHOOSE a \in at : \A b \in at : b <= a

\* a timer is due: its callback deletes the key and calls saveAll
AutoSave(t) ==
    /\ t \in timers
    /\ t.due = now
    /\ timers' = timers \ {t}
    /\ pendingSaves' = {p \in pendingSaves : p[1] # t.key}
    /\ saveLog' = Append(saveLog, [key |-> t.key, at |-> now,
                                   since |-> LastChange(t.key)])
    /\ UNCHANGED <<now, changeLog>>
    /\ UNCHANGED exceptSave

\* time passes, but not beyond a timer that is due
Tick ==
    /\ now < MaxTicks * TickMs
    /\ \A t \in timers : t.due > now
    /\ now' = now + TickMs
    /\ UNCHANGED <<timers, pendingSaves, changeLog, saveLog>>
    /\ UNCHANGED exceptSave

-----------------------------------------------------------------------------
(* Specification: notebooks change while time passes *)

InitAutoSave ==
    /\ IdleExceptSave
    /\ SaveIdle

NextAutoSave ==
    \/ \E doc \in NotebookDocs : scheduleNotebookSave(doc)
    \/ \E t \in timers : AutoSave(t)
    \/ Tick

SpecAutoSave == InitAutoSave /\ [][NextAutoSave]_vars

SavesOf(key) == {j \in 1..Len(saveLog) : saveLog[j].key = key}

EventsOf(t, k, e) ==
    {j \in 1..Len(events) : events[j] = Ev(t, k, e)}

\* C28: in executeHandler every cell of the batch gets execution.start and
\* then exactly one execution.end, true when executeCell returned and false
\* when it threw; a failing cell does not keep the cells after it from being
\* executed, in order
C28_EveryCellStartedAndEndedOnce ==
    LET T == task[1]
        Ends(k) == EventsOf(1, k, "end(true)") \cup EventsOf(1, k, "end(false)")
    IN  T.type = "controller" =>
            /\ \A k \in 1..Len(T.cells) :
                   /\ Cardinality(EventsOf(1, k, "start")) <= 1
                   /\ Cardinality(Ends(k)) <= 1
                   /\ \A e \in Ends(k) : \E s \in EventsOf(1, k, "start") : s < e
                   /\ EventsOf(1, k, "end(false)") # {} <=> EventsOf(1, k, "throw") # {}
                   /\ \A s \in EventsOf(1, k, "start") :
                          \A m \in 1..(k - 1) : \E e \in Ends(m) : e < s
            /\ T.pc \in {"done", "aborted"} =>
                   \A k \in 1..Len(T.cells) :
                       /\ Cardinality(EventsOf(1, k, "start")) = 1
                       /\ Cardinality(Ends(k)) = 1
                       /\ objs[T.cells[k]].kind = "code" =>
                              EventsOf(1, k, "call") # {}

\* a batch of two cells is through, the first failed and the second was
\* executed
C28_Witness ==
    /\ task[1].type = "controller"
    /\ task[1].pc = "done"
    /\ Len(task[1].cells) = 2
    /\ EventsOf(1, 1, "end(false)") # {}
    /\ EventsOf(1, 2, "end(true)") # {}
    /\ EventsOf(1, 2, "call") # {}

-----------------------------------------------------------------------------
(* controllers/kernelManager.ts *)

\* the environments a machine can have
Environments ==
    {[path |-> "/usr/bin/python3", type |-> "python"],
     [path |-> "/opt/py/bin/python", type |-> "python"],
     [path |-> "/usr/bin/node", type |-> "nodejs"]}

\* what detectEnvironments can resolve to: some of them, in some order
Detections ==
    {d \in UNION {[1..n -> Environments] : n \in 0..Cardinality(Environments)} :
        \A i, j \in 1..Len(d) : d[i] = d[j] => i = j}

\* Array.prototype.find by type: the first, or none
FindType(kernels, type) ==
    LET at == {i \in 1..Len(kernels) : kernels[i].type = type}
    IN  IF at = {} THEN {} ELSE {kernels[CHOOSE i \in at : \A j \in at : i <= j]}

\* currentKernel after autoSelectDefaultKernel on the list kernels
autoSelectDefaultKernel(kernels, current) ==
    IF Len(kernels) > 0
    THEN IF FindType(kernels, "python") # {} THEN FindType(kernels, "python")
         ELSE IF FindType(kernels, "nodejs") # {} THEN FindType(kernels, "nodejs")
         ELSE {kernels[1]}
    ELSE current

\* initialize, with what the detection resolves to
initialize(detected) ==
    /\ availableKernels' = detected
    /\ currentKernel' = autoSelectDefaultKernel(detected, currentKernel)
    /\ UNCHANGED quickPick
    /\ UNCHANGED exceptKernel

\* selectKernel up to the quick pick
selectKernel ==
    /\ ~quickPick.open
    /\ Len(availableKernels) # 0
    /\ quickPick' = [open |-> TRUE, items |-> availableKernels]
    /\ UNCHANGED <<currentKernel, availableKernels>>
    /\ UNCHANGED exceptKernel

\* the user picks item i of the quick pick, or dismisses it (i = 0)
QuickPickResolves(i) ==
    /\ quickPick.open
    /\ i \in 0..Len(quickPick.items)
    /\ currentKernel' = IF i = 0 THEN currentKernel ELSE {quickPick.items[i]}
    /\ quickPick' = NoPick
    /\ UNCHANGED availableKernels
    /\ UNCHANGED exceptKernel

\* refreshKernels, with what the detection resolves to
refreshKernels(detected) ==
    /\ availableKernels' = detected
    /\ currentKernel' =
           IF /\ currentKernel # {}
              /\ ~\E i \in 1..Len(detected) :
                     detected[i].path = (CHOOSE k \in currentKernel : TRUE).path
           THEN autoSelectDefaultKernel(detected, currentKernel)
           ELSE currentKernel
    /\ UNCHANGED quickPick
    /\ UNCHANGED exceptKernel

-----------------------------------------------------------------------------
(* Specification: the kernel manager over changing detections *)

InitKernel ==
    /\ IdleExceptKernel
    /\ KernelIdle

NextKernel ==
    \/ \E d \in Detections : refreshKernels(d)
    \/ \E d \in Detections : initialize(d)
    \/ selectKernel
    \/ \E i \in 0..Cardinality(Environments) : QuickPickResolves(i)

SpecKernel == InitKernel /\ [][NextKernel]_vars

\* C29: after any sequence of initialize, selectKernel and refreshKernels
\* the current kernel is null or one of the available kernels: a refresh
\* that no longer detects the current kernel does not leave it selected
C29_CurrentKernelIsAvailable ==
    ~quickPick.open =>
        \A k \in currentKernel :
            \E i \in 1..Len(availableKernels) : availableKernels[i].path = k.path

-----------------------------------------------------------------------------
(* bookmarkManager.ts *)

\* the clock stops here
MaxClock == 1

\* the cells a user bookmarks: metadata.id ("" is none), index, the uri of the
\* notebook, the length of the text, and the lengths of the first text item
\* of each output. The second cell carries as its id the id that the first
\* is given from its index.
BmCells ==
    {[id |-> "",       index |-> 0, uri |-> "a.ppnb", text |-> 3,   outputs |-> <<>>],
     [id |-> "cell-0", index |-> 1, uri |-> "a.ppnb", text |-> 101, outputs |-> <<0, 101>>],
     [id |-> "",       index |-> 1, uri |-> "a.ppnb", text |-> 3,   outputs |-> <<>>],
     [id |-> "",       index |-> 0, uri |-> "b.ppnb", text |-> 3,   outputs |-> <<>>]}

\* the titles a user gives
BmTitles == {[text |-> "renamed", n |-> 0]}

\* `cell-${cell.index}`
IndexId(index) == IF index = 0 THEN "cell-0" ELSE "cell-1"

\* cell.metadata?.id || `cell-${cell.index}`
CellIdOf(cell) == IF cell.id # "" THEN cell.id ELSE IndexId(cell.index)

\* text.substring(0, 100) + (text.length > 100 ? '...' : ''), by its length
Preview(len) == [len |-> IF len > 100 THEN 100 ELSE len, dots |-> len > 100]

\* the output preview: the first output whose text item gives a non-empty
\* preview; '' when there is none
RECURSIVE OutputPreview(_)
OutputPreview(outs) ==
    IF outs = <<>> THEN Preview(0)
    ELSE IF Head(outs) > 0 THEN Preview(Head(outs))
    ELSE OutputPreview(Tail(outs))

\* bookmarks.findIndex(b => b.cellId === cellId && b.notebookUri === uri)
FindBookmarkIndex(bs, cellId, uri) ==
    LET hits == {i \in 1..Len(bs) : bs[i].cellId = cellId /\ bs[i].notebookUri = uri}
    IN  IF hits = {} THEN -1 ELSE CHOOSE i \in hits : \A j \in hits : i <= j

\* bookmarks.find(b => b.id === bookmarkId), as an index
FindBookmarkById(bs, bookmarkId) ==
    LET hits == {i \in 1..Len(bs) : bs[i].id = bookmarkId}
    IN  IF hits = {} THEN -1 ELSE CHOOSE i \in hits : \A j \in hits : i <= j

\* bookmarks.filter(b => b.id !== bookmarkId)
RECURSIVE FilterOutId(_, _)
FilterOutId(bs, bookmarkId) ==
    IF bs = <<>> THEN <<>>
    ELSE IF Head(bs).id = bookmarkId THEN FilterOutId(Tail(bs), bookmarkId)
    ELSE <<Head(bs)>> \o FilterOutId(Tail(bs), bookmarkId)

addBookmark_AlwaysPush(cell) ==
    LET cellId == CellIdOf(cell)
        bookmark == [id |-> bmClock, cellId |-> cellId, notebookUri |-> cell.uri,
                     content |-> Preview(cell.text),
                     output |-> OutputPreview(cell.outputs),
                     timestamp |-> bmClock,
                     title |-> [text |-> "Bookmark", n |-> Len(bookmarks) + 1]]
    IN  /\ bookmarks' = Append(bookmarks, bookmark)
        /\ bmFile' = bookmarks'
        /\ bmOp' = [op |-> "add", cellId |-> cellId, notebookUri |-> cell.uri,
                    id |-> bookmark.id,
                    existingIndex |-> FindBookmarkIndex(bookmarks, cellId, cell.uri)]
        /\ UNCHANGED bmClock
        /\ UNCHANGED exceptBm

addBookmark(cell) ==
    LET cellId == CellIdOf(cell)
        existingIndex == FindBookmarkIndex(bookmarks, cellId, cell.uri)
        bookmark == [id |-> IF existingIndex >= 0 THEN bookmarks[existingIndex].id
                            ELSE bmClock,
                     cellId |-> cellId, notebookUri |-> cell.uri,
                     content |-> Preview(cell.text),
                     output |-> OutputPreview(cell.outputs),
                     timestamp |-> bmClock,
                     title |-> [text |-> "Bookmark", n |-> Len(bookmarks) + 1]]
    IN  /\ bookmarks' = IF existingIndex >= 0
                        THEN [bookmarks EXCEPT ![existingIndex] = bookmark]
                        ELSE Append(bookmarks, bookmark)
        /\ bmFile' = bookmarks'
        /\ bmOp' = [op |-> "add", cellId |-> cellId, notebookUri |-> cell.uri,
                    id |-> bookmark.id, existingIndex |-> existingIndex]
        /\ UNCHANGED bmClock
        /\ UNCHANGED exceptBm

removeBookmark(bookmarkId) ==
    /\ bookmarks' = FilterOutId(bookmarks, bookmarkId)
    /\ bmFile' = IF Len(bookmarks') < Len(bookmarks) THEN bookmarks' ELSE bmFile
    /\ bmOp' = [NoBmOp EXCEPT !.op = "remove", !.id = bookmarkId,
                              !.existingIndex = FindBookmarkById(bookmarks, bookmarkId)]
    /\ UNCHANGED bmClock
    /\ UNCHANGED exceptBm

updateBookmarkTitle(bookmarkId, newTitle) ==
    LET i == FindBookmarkById(bookmarks, bookmarkId)
    IN  /\ bookmarks' = IF i >= 0 THEN [bookmarks EXCEPT ![i].title = newTitle]
                        ELSE bookmarks
        /\ bmFile' = IF i >= 0 THEN bookmarks' ELSE bmFile
        /\ bmOp' = [NoBmOp EXCEPT !.op = "title", !.id = bookmarkId, !.existingIndex = i]
        /\ UNCHANGED bmClock
        /\ UNCHANGED exceptBm

\* a millisecond passes
BmTick ==
    /\ bmClock < MaxClock
    /\ bmClock' = bmClock + 1
    /\ UNCHANGED <<bookmarks, bmFile, bmOp>>
    /\ UNCHANGED exceptBm

\* a first start: loadBookmarks finds no bookmarks.json and writes []
InitBookmarks == IdleExceptBm /\ BmIdle

NextBookmarks ==
    \/ \E cell \in BmCells : addBookmark(cell)
    \/ \E bookmarkId \in 0..MaxClock : removeBookmark(bookmarkId)
    \/ \E bookmarkId \in 0..MaxClock, newTitle \in BmTitles :
           updateBookmarkTitle(bookmarkId, newTitle)
    \/ BmTick

SpecBookmarks == InitBookmarks /\ [][NextBookmarks]_vars

\* no two bookmarks of the list have the same (cellId, notebookUri)
BookmarksUnique ==
    \A i, j \in 1..Len(bookmarks) :
        (bookmarks[i].cellId = bookmarks[j].cellId
            /\ bookmarks[i].notebookUri = bookmarks[j].notebookUri) => i = j

\* a step of addBookmark on a cell that was bookmarked keeps the length of
\* the list, puts the new bookmark where the old one was with the old id,
\* and leaves the others as they were
AddReplacesInPlace ==
    (bmOp' # bmOp /\ bmOp'.op = "add" /\ bmOp'.existingIndex >= 0) =>
        /\ Len(bookmarks') = Len(bookmarks)
        /\ \A i \in 1..Len(bookmarks) :
              IF i = bmOp'.existingIndex
              THEN /\ bookmarks'[i].id = bookmarks[i].id
                   /\ bookmarks'[i].cellId = bmOp'.cellId
                   /\ bookmarks'[i].notebookUri = bmOp'.notebookUri
              ELSE bookmarks'[i] = bookmarks[i]

\* C30: after any sequence of addBookmark, removeBookmark and
\* updateBookmarkTitle no two bookmarks have the same (cellId, notebookUri),
\* and addBookmark on a cell that is already bookmarked replaces that
\* bookmark where it is, keeps its id and does not make the list longer.
C30_BookmarksUniquePerCell == []BookmarksUnique /\ [][AddReplacesInPlace]_vars

\* addBookmark has replaced the second of three bookmarks, made at a later
\* millisecond than the add
C30_Witness ==
    /\ bmOp.op = "add"
    /\ bmOp.existingIndex = 2
    /\ Len(bookmarks) = 3
    /\ bookmarks[2].timestamp > bookmarks[2].id

====
